---- MODULE Spec2Model ----
(***************************************************************************)
(* A model of the jni_macros crate of ez-jni-rs.                           *)
(*                                                                         *)
(* The call! expansion:                                                    *)
(*                                                                         *)
(*   - the call-expression grammar of jni_macros/src/call.rs (the module   *)
(*     lib.rs imports MethodCall, Return and Type from),                   *)
(*   - the generator of jni_macros/src/lib.rs (signature, parameter        *)
(*     marshalling, return demarshalling),                                 *)
(*   - the emitted program, run step by step against a call bridge whose   *)
(*     answers (failure, returned value, pending exception) are chosen     *)
(*     nondeterministically.                                               *)
(*                                                                         *)
(* The type model of jni_macros/src/types.rs (class paths with nested      *)
(* classes, the two vocabularies of primitives), applied to a token        *)
(* stream, and the package registry of lib.rs (PACKAGE_NAME behind its     *)
(* RwLock) with the package! and jni_fn expansions that use it.            *)
(*                                                                         *)
(* The conversions of types.rs between the host's primitives and the       *)
(* bridge's (unsigned integers, char), applied to values.                  *)
(*                                                                         *)
(* Each specification runs one of the four parts; the variables of the     *)
(* others stay at rest.                                                    *)
(*                                                                         *)
(* Text is a sequence of chunks (one-character strings and identifiers),   *)
(* token streams are sequences of tokens (identifiers and punctuation).    *)
(***************************************************************************)
EXTENDS Integers, Sequences, FiniteSets, TLC

\* the call! expansion and the run of the code it emits
VARIABLES input, pc, prog, ip, log, raw, pending, cur, result
\* the type model: a token stream, what it parses to, how that renders
VARIABLES text, parsed, rendered
\* the package registry, its lock, and the expansions that use it
VARIABLES PACKAGE_NAME, lock, threads, writes
\* a primitive value on its way to the bridge and back
VARIABLES prim, sent, wire, got

call_vars == <<input, pc, prog, ip, log, raw, pending, cur, result>>

types_vars == <<text, parsed, rendered>>

registry_vars == <<PACKAGE_NAME, lock, threads, writes>>

conversion_vars == <<prim, sent, wire, got>>

vars == <<call_vars, types_vars, registry_vars, conversion_vars>>

(***************************************************************************)
(* Bounds of the model.                                                    *)
(***************************************************************************)
\* most parameters of a call expression
MaxParams == 2
\* most elements of an array literal
MaxLen == 2

(***************************************************************************)
(* Tokens.                                                                 *)
(***************************************************************************)
Punct == {".", "::", "<", ">", ",", "->", "$"}

\* syn's Ident parser refuses the keywords of the host language
RustKeywords == {"static"}

IsIdent(tok) == tok \notin Punct /\ tok \notin RustKeywords

\* the token at a cursor position, "" at the end of the stream
At(toks, pos) == IF pos >= 1 /\ pos <= Len(toks) THEN toks[pos] ELSE ""

PeekIdent(toks, pos) == pos <= Len(toks) /\ pos >= 1 /\ IsIdent(toks[pos])

Fail(pos) == [ok |-> FALSE, pos |-> pos]

Ok(pos, val) == [ok |-> TRUE, pos |-> pos, val |-> val]

(***************************************************************************)
(* call.rs: ClassPath                                                      *)
(***************************************************************************)
RECURSIVE parse_separated_nonempty(_, _, _)
\* Punctuated::<Ident, Token![.]>::parse_separated_nonempty: an identifier,
\* then while a dot follows, the dot and another identifier.
parse_separated_nonempty(toks, pos, acc) ==
  IF ~PeekIdent(toks, pos) THEN Fail(pos)
  ELSE IF At(toks, pos + 1) = "."
       THEN parse_separated_nonempty(toks, pos + 2, Append(acc, toks[pos]))
       ELSE Ok(pos + 1, Append(acc, toks[pos]))

\* impl Parse for ClassPath: the last identifier is the class, the ones
\* before it the packages; one identifier alone is accepted.
ClassPath_parse(toks, pos) ==
  LET path == parse_separated_nonempty(toks, pos, <<>>)
  IN  IF ~path.ok THEN path
      ELSE Ok(path.pos,
              [packages |-> SubSeq(path.val, 1, Len(path.val) - 1),
               class    |-> path.val[Len(path.val)]])

RECURSIVE intersperse(_, _)
intersperse(items, sep) ==
  IF Len(items) <= 1 THEN items
  ELSE <<Head(items), sep>> \o intersperse(Tail(items), sep)

\* impl Display for ClassPath: packages and class joined by "/"
ClassPath_fmt(class) ==
  intersperse(Append(class.packages, class.class), "/")

\* ClassPath::sig_type: format!("L{self};")
ClassPath_sig_type(class) == <<"L">> \o ClassPath_fmt(class) \o <<";">>

(***************************************************************************)
(* call.rs: Type                                                           *)
(***************************************************************************)
TypeKeywords ==
  [void |-> "Void", byte |-> "Byte", bool |-> "Bool", char |-> "Char",
   short |-> "Short", int |-> "Int", long |-> "Long", float |-> "Float",
   double |-> "Double"]

\* impl Parse for Type: a keyword of the table, else a class path parsed
\* from the untouched stream.
Type_parse(toks, pos) ==
  IF ~PeekIdent(toks, pos) THEN Fail(pos)
  ELSE IF toks[pos] \in DOMAIN TypeKeywords
       THEN Ok(pos + 1, [tag |-> TypeKeywords[toks[pos]], ident |-> toks[pos]])
       ELSE LET class == ClassPath_parse(toks, pos)
            IN  IF class.ok
                THEN Ok(class.pos, [tag |-> "Object", class |-> class.val])
                ELSE class

is_void(ty) == ty.tag = "Void"

IsObject(ty) == ty.tag = "Object"

\* Type::sig_char
sig_char(ty) ==
  CASE ty.tag = "Void"   -> "v"
    [] ty.tag = "Byte"   -> "b"
    [] ty.tag = "Bool"   -> "z"
    [] ty.tag = "Char"   -> "c"
    [] ty.tag = "Short"  -> "s"
    [] ty.tag = "Int"    -> "i"
    [] ty.tag = "Long"   -> "j"
    [] ty.tag = "Float"  -> "f"
    [] ty.tag = "Double" -> "d"
    [] ty.tag = "Object" -> "l"

\* char::to_uppercase on the letters of the signature alphabet
to_uppercase(c) ==
  CASE c = "v" -> "V" [] c = "b" -> "B" [] c = "z" -> "Z" [] c = "c" -> "C"
    [] c = "s" -> "S" [] c = "i" -> "I" [] c = "j" -> "J" [] c = "f" -> "F"
    [] c = "d" -> "D" [] c = "l" -> "L"

\* Type::sig_type
sig_type(ty) ==
  IF IsObject(ty) THEN ClassPath_sig_type(ty.class)
  ELSE <<to_uppercase(sig_char(ty))>>

\* impl Display for Type (the primitive names; Object is not used by the
\* marshalling code)
Type_fmt(ty) ==
  CASE ty.tag = "Void"   -> "void"
    [] ty.tag = "Byte"   -> "byte"
    [] ty.tag = "Bool"   -> "bool"
    [] ty.tag = "Char"   -> "char"
    [] ty.tag = "Short"  -> "short"
    [] ty.tag = "Int"    -> "int"
    [] ty.tag = "Long"   -> "long"
    [] ty.tag = "Float"  -> "float"
    [] ty.tag = "Double" -> "double"
    [] ty.tag = "Object" -> "Object"

\* first_char_uppercase on the primitive names
first_char_uppercase(s) ==
  CASE s = "void"   -> "Void"
    [] s = "byte"   -> "Byte"
    [] s = "bool"   -> "Bool"
    [] s = "char"   -> "Char"
    [] s = "short"  -> "Short"
    [] s = "int"    -> "Int"
    [] s = "long"   -> "Long"
    [] s = "float"  -> "Float"
    [] s = "double" -> "Double"
    [] OTHER        -> s

(***************************************************************************)
(* call.rs: Parameter                                                      *)
(*                                                                         *)
(* A parameter token tree is [bracket, ty, value]: bracket says the type   *)
(* is wrapped in brackets, ty is the type's token stream, and value is the *)
(* content of the parentheses, [bracket, elems]: an array literal's        *)
(* expressions when bracket is set, one value expression otherwise.        *)
(***************************************************************************)
ParseError == [ok |-> FALSE]

\* Parameter_parse without the void check of the plain branch
Parameter_parse_void_single(p) ==
  LET ty == Type_parse(p.ty, 1)
  IN  IF p.bracket
      THEN IF ~ty.ok \/ ty.pos # Len(p.ty) + 1 THEN ParseError
           ELSE IF is_void(ty.val) THEN ParseError
           ELSE IF p.value.bracket
                THEN [ok |-> TRUE,
                      val |-> [tag |-> "ArrayLiteral", ty |-> ty.val,
                               array |-> p.value.elems]]
                ELSE [ok |-> TRUE,
                      val |-> [tag |-> "Array", ty |-> ty.val,
                               value |-> p.value]]
      ELSE IF ~ty.ok THEN ParseError
           ELSE IF ty.pos # Len(p.ty) + 1 THEN ParseError
           ELSE [ok |-> TRUE,
                 val |-> [tag |-> "Single", ty |-> ty.val, value |-> p.value]]

\* Parameter_parse without the void check of the bracketed branch
Parameter_parse_void_array(p) ==
  LET ty == Type_parse(p.ty, 1)
  IN  IF p.bracket
      THEN IF ~ty.ok \/ ty.pos # Len(p.ty) + 1 THEN ParseError
           ELSE IF p.value.bracket
                THEN [ok |-> TRUE,
                      val |-> [tag |-> "ArrayLiteral", ty |-> ty.val,
                               array |-> p.value.elems]]
                ELSE [ok |-> TRUE,
                      val |-> [tag |-> "Array", ty |-> ty.val,
                               value |-> p.value]]
      ELSE IF ~ty.ok THEN ParseError
           ELSE IF is_void(ty.val) THEN ParseError
           ELSE IF ty.pos # Len(p.ty) + 1 THEN ParseError
           ELSE [ok |-> TRUE,
                 val |-> [tag |-> "Single", ty |-> ty.val, value |-> p.value]]

\* impl Parse for Parameter: the bracketed branch (Array, ArrayLiteral) and
\* the plain branch (Single), each with its own void check
Parameter_parse(p) ==
  LET ty == Type_parse(p.ty, 1)
  IN  IF p.bracket
      THEN IF ~ty.ok \/ ty.pos # Len(p.ty) + 1 THEN ParseError
           ELSE IF is_void(ty.val) THEN ParseError
           ELSE IF p.value.bracket
                THEN [ok |-> TRUE,
                      val |-> [tag |-> "ArrayLiteral", ty |-> ty.val,
                               array |-> p.value.elems]]
                ELSE [ok |-> TRUE,
                      val |-> [tag |-> "Array", ty |-> ty.val,
                               value |-> p.value]]
      ELSE IF ~ty.ok THEN ParseError
           ELSE IF is_void(ty.val) THEN ParseError
           ELSE IF ty.pos # Len(p.ty) + 1 THEN ParseError
           ELSE [ok |-> TRUE,
                 val |-> [tag |-> "Single", ty |-> ty.val, value |-> p.value]]

\* Parameter::ty
Parameter_ty(param) == param.ty

\* Parameter::is_array
is_array(param) == param.tag \in {"Array", "ArrayLiteral"}

\* Punctuated::parse_terminated over the parameters of the call
RECURSIVE parse_parameters(_)
parse_parameters(ps) ==
  IF ps = <<>> THEN [ok |-> TRUE, val |-> <<>>]
  ELSE LET first == Parameter_parse(Head(ps))
           rest  == parse_parameters(Tail(ps))
       IN  IF ~first.ok \/ ~rest.ok THEN ParseError
           ELSE [ok |-> TRUE, val |-> <<first.val>> \o rest.val]

(***************************************************************************)
(* call.rs: Return and ResultType                                          *)
(***************************************************************************)
\* input.parse::<Token![tok]>()? after the parse r, whose value is kept
Expect(toks, r, tok) ==
  IF ~r.ok THEN r
  ELSE IF At(toks, r.pos) = tok THEN Ok(r.pos + 1, r.val)
  ELSE Fail(r.pos)

\* input.parse::<Type>()? after the parse r
TypeAfter(toks, r) == IF r.ok THEN Type_parse(toks, r.pos) ELSE r

\* Type::Object(path) => path, t => Err(..): Option takes a class only
OnlyObject(ty) ==
  IF ~ty.ok THEN ty
  ELSE IF IsObject(ty.val) THEN Ok(ty.pos, ty.val.class)
  ELSE Fail(ty.pos)

\* Return::parse_option: "<", a Type that must be an Object, ">"
parse_option(toks, pos) ==
  Expect(toks, OnlyObject(TypeAfter(toks, Expect(toks, Ok(pos, <<>>), "<"))),
         ">")

\* a parse result with its value wrapped as a variant
Variant(r, tag) ==
  IF ~r.ok THEN r
  ELSE IF tag = "Option" THEN Ok(r.pos, [tag |-> "Option", class |-> r.val])
  ELSE IF tag = "Result" THEN Ok(r.pos, [tag |-> "Result", ok |-> r.val])
  ELSE Ok(r.pos, [tag |-> "Assertive", ty |-> r.val])

\* ResultType_parse that reads through a nested Result to its ok type
ResultType_parse_nested(toks, pos) ==
  IF PeekIdent(toks, pos) /\ toks[pos] = "Option"
  THEN Variant(parse_option(toks, pos + 1), "Option")
  ELSE IF PeekIdent(toks, pos) /\ toks[pos] = "Result"
  THEN LET inner == Expect(toks,
                      TypeAfter(toks, Expect(toks, Ok(pos + 1, <<>>), "<")),
                      ",")
       IN  IF inner.ok /\ PeekIdent(toks, inner.pos)
           THEN Variant(Expect(toks, Ok(inner.pos + 1, inner.val), ">"),
                        "Assertive")
           ELSE Fail(pos)
  ELSE Variant(Type_parse(toks, pos), "Assertive")

\* impl Parse for ResultType
ResultType_parse(toks, pos) ==
  IF PeekIdent(toks, pos) /\ toks[pos] = "Option"
  THEN Variant(parse_option(toks, pos + 1), "Option")
  ELSE IF PeekIdent(toks, pos) /\ toks[pos] = "Result" THEN Fail(pos)
  ELSE Variant(Type_parse(toks, pos), "Assertive")

\* input.parse::<ResultType>()? after the parse r
ResultTypeAfter(toks, r) == IF r.ok THEN ResultType_parse(toks, r.pos) ELSE r

RECURSIVE parse_path(_, _, _)
\* syn::Path: identifiers separated by "::"
parse_path(toks, pos, acc) ==
  IF ~PeekIdent(toks, pos) THEN Fail(pos)
  ELSE IF At(toks, pos + 1) = "::"
       THEN parse_path(toks, pos + 2, Append(acc, toks[pos]))
       ELSE Ok(pos + 1, Append(acc, toks[pos]))

\* syn::Path::is_ident
is_ident(path, name) == path = <<name>>

\* the error type of a Result after the parse r: a path that must be the
\* identifier String
ErrTypeAfter(toks, r) ==
  IF ~r.ok THEN r
  ELSE LET err_type == parse_path(toks, r.pos, <<>>)
       IN  IF ~err_type.ok THEN err_type
           ELSE IF ~is_ident(err_type.val, "String") THEN Fail(err_type.pos)
           ELSE Ok(err_type.pos, r.val)

\* impl Parse for Return
Return_parse(toks, pos) ==
  IF PeekIdent(toks, pos) /\ toks[pos] = "Option"
  THEN Variant(parse_option(toks, pos + 1), "Option")
  ELSE IF PeekIdent(toks, pos) /\ toks[pos] = "Result"
  THEN Variant(
         Expect(toks,
           ErrTypeAfter(toks,
             Expect(toks,
               ResultTypeAfter(toks, Expect(toks, Ok(pos + 1, <<>>), "<")),
               ",")),
           ">"),
         "Result")
  ELSE Variant(Type_parse(toks, pos), "Assertive")

(***************************************************************************)
(* call.rs: the call target and MethodCall                                 *)
(***************************************************************************)
\* a receiver expression enclosed in parentheses or braces is one token
ParenGroup == "(x)"

BraceGroup == "{x}"

\* impl Parse for StaticMethod: "static", a class path, "::"
StaticMethod_parse(toks, pos) ==
  IF At(toks, pos) # "static" THEN Fail(pos)
  ELSE LET path == ClassPath_parse(toks, pos + 1)
       IN  IF ~path.ok THEN path
           ELSE IF At(toks, path.pos) # "::" THEN Fail(path.pos)
           ELSE Ok(path.pos + 1, [tag |-> "static", class |-> path.val])

\* impl Parse for ObjectMethod: a group or an identifier, then "."
ObjectMethod_parse(toks, pos) ==
  IF At(toks, pos) \in {ParenGroup, BraceGroup} \/ PeekIdent(toks, pos)
  THEN IF At(toks, pos + 1) = "."
       THEN Ok(pos + 2, [tag |-> "object", object |-> toks[pos]])
       ELSE Fail(pos + 1)
  ELSE Fail(pos)

\* the call_type field of MethodCall::parse: the static target, or else the
\* object target parsed from where the first attempt left the stream
call_type_parse(toks) ==
  LET st == StaticMethod_parse(toks, 1)
  IN  IF st.ok THEN st ELSE ObjectMethod_parse(toks, st.pos)

\* method_name: input.parse()? after the call target
method_name_parse(toks, r) ==
  IF ~r.ok THEN r
  ELSE IF ~PeekIdent(toks, r.pos) THEN Fail(r.pos)
  ELSE IF r.pos # Len(toks) THEN Fail(r.pos + 1)
  ELSE Ok(r.pos + 1, [call_type |-> r.val, method_name |-> toks[r.pos]])

\* return_type: the arrow, then the Return, to the end of the input
return_type_parse(toks) ==
  LET r == Return_parse(toks, 2)
  IN  IF At(toks, 1) # "->" THEN ParseError
      ELSE IF ~r.ok \/ r.pos # Len(toks) + 1 THEN ParseError
      ELSE [ok |-> TRUE, val |-> r.val]

\* the fields of a MethodCall, once each of them has parsed
MethodCall_fields(target, parameters, return_type) ==
  IF ~target.ok \/ ~parameters.ok \/ ~return_type.ok THEN ParseError
  ELSE [ok |-> TRUE,
        val |-> [call_type   |-> target.val.call_type,
                 method_name |-> target.val.method_name,
                 parameters  |-> parameters.val,
                 return_type |-> return_type.val]]

\* impl Parse for MethodCall.  A call expression is [head, params, tail]:
\* the tokens before the parameter parentheses, the parameter token trees,
\* and the tokens after the parentheses.
MethodCall_parse(in) ==
  MethodCall_fields(method_name_parse(in.head, call_type_parse(in.head)),
                    parse_parameters(in.params),
                    return_type_parse(in.tail))

(***************************************************************************)
(* call.rs: impl ToTokens for Parameter.                                   *)
(*                                                                         *)
(* The emitted program is a sequence of instructions, one per bridge call  *)
(* or check.  A parameter emits the instructions of its block (none unless *)
(* it is an array literal) and one JValue argument expression.             *)
(***************************************************************************)
\* (#value)
ByValue(value) == [how |-> "value", expr |-> value]

\* (#value as u8)
AsU8(value) == [how |-> "as u8", expr |-> value]

\* (&(#value))
ByRef(value) == [how |-> "ref", expr |-> value]

\* (&{ ... ::jni::objects::JObject::from(array) }): the block that builds
\* the array of a literal
ArrayBlock(array) ==
  [how |-> "block", expr |-> [bracket |-> TRUE, elems |-> array]]

\* the array type named in new_<ident>_array and set_<ident>_array_region
array_ident(ty) == IF ty.tag = "Bool" THEN "boolean" ELSE ty.ident

\* fill_values without the cast of bool elements
fill_values_no_cast(ty, array) ==
  [i \in 1..Len(array) |-> ByValue(array[i])]

\* the values of the bulk fill: bool elements are cast to u8
fill_values(ty, array) ==
  [i \in 1..Len(array) |->
     IF ty.tag = "Bool" THEN AsU8(array[i]) ELSE ByValue(array[i])]

\* the instructions of an array literal of primitives
primitive_literal_ops(ty, array, k) ==
  << [op |-> "new_array", kind |-> array_ident(ty), len |-> Len(array),
      param |-> k],
     [op |-> "set_array_region", kind |-> array_ident(ty), start |-> 0,
      values |-> fill_values(ty, array), param |-> k] >>

\* object_literal_ops with the stores enumerated from 1
object_literal_ops_one_based(class, array, k) ==
  << [op |-> "new_object_array", len |-> Len(array),
      class |-> ClassPath_fmt(class), param |-> k] >>
  \o [i \in 1..Len(array) |->
        [op |-> "set_object_array_element", index |-> i,
         value |-> array[i], param |-> k]]

\* the instructions of an array literal of objects: the allocation, then
\* one store per element, enumerated from 0
object_literal_ops(class, array, k) ==
  << [op |-> "new_object_array", len |-> Len(array),
      class |-> ClassPath_fmt(class), param |-> k] >>
  \o [i \in 1..Len(array) |->
        [op |-> "set_object_array_element", index |-> i - 1,
         value |-> array[i], param |-> k]]

\* the instructions parameter k emits
Parameter_ops(param, k) ==
  IF param.tag = "ArrayLiteral"
  THEN IF IsObject(param.ty)
       THEN object_literal_ops(param.ty.class, param.array, k)
       ELSE primitive_literal_ops(param.ty, param.array, k)
  ELSE <<>>

\* the JValue argument parameter k emits
Parameter_arg(param, k) ==
  CASE param.tag = "Single" ->
         IF IsObject(param.ty)
         THEN [jvalue |-> "Object", val |-> ByRef(param.value)]
         ELSE [jvalue |-> first_char_uppercase(Type_fmt(param.ty)),
               val |-> IF param.ty.tag = "Bool" THEN AsU8(param.value)
                       ELSE ByValue(param.value)]
    [] param.tag = "Array" ->
         [jvalue |-> "Object", val |-> ByRef(param.value)]
    [] param.tag = "ArrayLiteral" ->
         [jvalue |-> "Object", val |-> ArrayBlock(param.array)]

(***************************************************************************)
(* lib.rs: call                                                            *)
(***************************************************************************)
\* Result<Option<class>, _>: the class's signature is the return fragment
ResultOption_sig_type(class) == ClassPath_sig_type(class)

\* Result<Option<class>, _>: the raw result is converted as an object
ResultOption_sig_char(class) == "l"

\* Result<Option<class>, _>: null becomes the empty option, then the
\* exception check wraps the option
ResultOption_ops(class) == << [op |-> "option_wrap"], [op |-> "catch_exception"] >>

\* the return fragment of the signature
return_sig_type(ret) ==
  CASE ret.tag = "Assertive" -> sig_type(ret.ty)
    [] ret.tag = "Option"    -> ClassPath_sig_type(ret.class)
    [] ret.tag = "Result"    ->
         IF ret.ok.tag = "Assertive" THEN sig_type(ret.ok.ty)
         ELSE ResultOption_sig_type(ret.ok.class)

RECURSIVE params_signature(_)
\* the loop over the parameters: "[" for an array, then the type
params_signature(params) ==
  IF params = <<>> THEN <<>>
  ELSE (IF is_array(Head(params)) THEN <<"[">> ELSE <<>>)
       \o sig_type(Parameter_ty(Head(params)))
       \o params_signature(Tail(params))

\* let signature = ...
signature(call) ==
  <<"(">> \o params_signature(call.parameters) \o <<")">>
  \o return_sig_type(call.return_type)

\* let sig_char = ...
return_sig_char(ret) ==
  CASE ret.tag = "Assertive" -> sig_char(ret.ty)
    [] ret.tag = "Option"    -> "l"
    [] ret.tag = "Result"    ->
         IF ret.ok.tag = "Assertive" THEN sig_char(ret.ok.ty)
         ELSE ResultOption_sig_char(ret.ok.class)

RECURSIVE parameters_ops(_, _)
\* the blocks of the parameters, in the order of the argument slice
parameters_ops(params, k) ==
  IF k > Len(params) THEN <<>>
  ELSE Parameter_ops(params[k], k) \o parameters_ops(params, k + 1)

\* let parameters = quote!{ &[ #(#params),* ] }
parameters_args(params) ==
  [k \in 1..Len(params) |-> Parameter_arg(params[k], k)]

\* jni_call with the class of a static call looked up in the package of
\* the registry
jni_call_in_package(call) ==
  << [op     |-> IF call.call_type.tag = "static"
                 THEN "call_static_method" ELSE "call_method",
      target |-> IF call.call_type.tag = "static"
                 THEN (IF PACKAGE_NAME.some
                         THEN PACKAGE_NAME.value \o <<"/">> ELSE <<>>)
                      \o ClassPath_fmt(call.call_type.class)
                 ELSE <<call.call_type.object>>,
      name   |-> call.method_name,
      sig    |-> signature(call),
      args   |-> parameters_args(call.parameters)],
     [op |-> "convert", sig_char |-> return_sig_char(call.return_type)] >>

\* let jni_call = ...: the bridge call, then the conversion by sig_char
jni_call(call) ==
  << [op     |-> IF call.call_type.tag = "static"
                 THEN "call_static_method" ELSE "call_method",
      target |-> IF call.call_type.tag = "static"
                 THEN ClassPath_fmt(call.call_type.class)
                 ELSE <<call.call_type.object>>,
      name   |-> call.method_name,
      sig    |-> signature(call),
      args   |-> parameters_args(call.parameters)],
     [op |-> "convert", sig_char |-> return_sig_char(call.return_type)] >>

\* return_ops with the null check in front of every exception check
return_ops_null_check_always(ret) ==
  CASE ret.tag = "Option" -> << [op |-> "option_wrap"] >>
    [] ret.tag = "Assertive" ->
         IF IsObject(ret.ty) THEN << [op |-> "null_check"] >> ELSE <<>>
    [] ret.tag = "Result" ->
         IF ret.ok.tag = "Assertive"
         THEN << [op |-> "null_check"], [op |-> "catch_exception"] >>
         ELSE ResultOption_ops(ret.ok.class)

\* return_ops with Option asserting a non-null reference before it wraps
return_ops_option_asserts(ret) ==
  CASE ret.tag = "Option" ->
         << [op |-> "null_check"], [op |-> "option_wrap"] >>
    [] ret.tag = "Assertive" ->
         IF IsObject(ret.ty) THEN << [op |-> "null_check"] >> ELSE <<>>
    [] ret.tag = "Result" ->
         IF ret.ok.tag = "Assertive"
         THEN (IF IsObject(ret.ok.ty) THEN << [op |-> "null_check"] >>
               ELSE <<>>)
              \o << [op |-> "catch_exception"] >>
         ELSE ResultOption_ops(ret.ok.class)

\* return_ops without the null check of an assertive Object
return_ops_no_null_check(ret) ==
  CASE ret.tag = "Option" -> << [op |-> "option_wrap"] >>
    [] ret.tag = "Assertive" -> <<>>
    [] ret.tag = "Result" ->
         IF ret.ok.tag = "Assertive"
         THEN (IF IsObject(ret.ok.ty) THEN << [op |-> "null_check"] >>
               ELSE <<>>)
              \o << [op |-> "catch_exception"] >>
         ELSE ResultOption_ops(ret.ok.class)

\* return_ops with the exception check in front of the null check
return_ops_exception_check_first(ret) ==
  CASE ret.tag = "Option" -> << [op |-> "option_wrap"] >>
    [] ret.tag = "Assertive" ->
         IF IsObject(ret.ty) THEN << [op |-> "null_check"] >> ELSE <<>>
    [] ret.tag = "Result" ->
         IF ret.ok.tag = "Assertive"
         THEN << [op |-> "catch_exception"] >>
              \o (IF IsObject(ret.ok.ty) THEN << [op |-> "null_check"] >>
                  ELSE <<>>)
         ELSE ResultOption_ops(ret.ok.class)

\* return_ops with the exception check after an Option too
return_ops_option_checks_exception(ret) ==
  CASE ret.tag = "Option" ->
         << [op |-> "option_wrap"], [op |-> "catch_exception"] >>
    [] ret.tag = "Assertive" ->
         IF IsObject(ret.ty) THEN << [op |-> "null_check"] >> ELSE <<>>
    [] ret.tag = "Result" ->
         IF ret.ok.tag = "Assertive"
         THEN (IF IsObject(ret.ok.ty) THEN << [op |-> "null_check"] >>
               ELSE <<>>)
              \o << [op |-> "catch_exception"] >>
         ELSE ResultOption_ops(ret.ok.class)

\* match call.return_type: what follows the bridge call
return_ops(ret) ==
  CASE ret.tag = "Option" -> << [op |-> "option_wrap"] >>
    [] ret.tag = "Assertive" ->
         IF IsObject(ret.ty) THEN << [op |-> "null_check"] >> ELSE <<>>
    [] ret.tag = "Result" ->
         IF ret.ok.tag = "Assertive"
         THEN (IF IsObject(ret.ok.ty) THEN << [op |-> "null_check"] >>
               ELSE <<>>)
              \o << [op |-> "catch_exception"] >>
         ELSE ResultOption_ops(ret.ok.class)

\* the program the macro emits for a parsed call
emit(call) ==
  [sig |-> signature(call),
   ops |-> parameters_ops(call.parameters, 1) \o jni_call(call)
           \o return_ops(call.return_type)]

(***************************************************************************)
(* The call bridge and the values of the emitted program.                  *)
(***************************************************************************)
\* a JValue the bridge returns: its kind (the letter of its accessor) and
\* its bits; an object is a pointer, null when 0
JValues ==
  {[k |-> "l", v |-> 0], [k |-> "l", v |-> 1],
   [k |-> "i", v |-> 0], [k |-> "i", v |-> 1],
   [k |-> "v", v |-> 0]}

NoJValue == [k |-> "none", v |-> 0]

\* a value of the emitted program: the constructors around it, outermost
\* first, and the converted JValue
NoValue == [wrap |-> <<>>, k |-> "none", v |-> 0]

\* JObject::is_null
is_null(x) == x.v = 0

\* JValue::l(), ::i(), ::v(), ...: the accessor of another kind fails
convert(jvalue, ch) ==
  IF jvalue.k = ch
  THEN [ok |-> TRUE, val |-> [wrap |-> <<>>, k |-> jvalue.k, v |-> jvalue.v]]
  ELSE [ok |-> FALSE]

\* if __call_result.is_null() { None } else { Some(__call_result) }
option_wrap(x) ==
  IF is_null(x) THEN [wrap |-> <<"None">>, k |-> x.k, v |-> x.v]
  ELSE [wrap |-> <<"Some">>, k |-> x.k, v |-> x.v]

\* crate::utils::catch_exception: an error when an exception is pending
catch_exception(exc) == [ok |-> ~exc]

\* catch_map that maps to the call result without looking at the exception
catch_map_ignores_exception(exc, x) ==
  [wrap |-> <<"Ok">> \o x.wrap, k |-> x.k, v |-> x.v]

\* catch_exception(env).map(|_| __call_result)
catch_map(exc, x) ==
  IF catch_exception(exc).ok
  THEN [wrap |-> <<"Ok">> \o x.wrap, k |-> x.k, v |-> x.v]
  ELSE [wrap |-> <<"Err">>, k |-> "String", v |-> 0]

(***************************************************************************)
(* The call expressions expanded.                                          *)
(***************************************************************************)
\* the i-th expression of an array literal
ElementExpr(i) ==
  CASE i = 1 -> "e1" [] i = 2 -> "e2" [] i = 3 -> "e3" [] OTHER -> "e4"

ValueExpr == [bracket |-> FALSE, elems |-> <<"x">>]

LiteralExpr(n) == [bracket |-> TRUE, elems |-> [i \in 1..n |-> ElementExpr(i)]]

TypeTokens ==
  {<<"void">>, <<"bool">>, <<"boolean">>, <<"int">>, <<"me", ".", "Obj">>}

ParamTrees ==
  {[bracket |-> FALSE, ty |-> t, value |-> ValueExpr] : t \in TypeTokens}
  \cup {[bracket |-> TRUE, ty |-> t, value |-> ValueExpr] : t \in TypeTokens}
  \cup {[bracket |-> TRUE, ty |-> t, value |-> LiteralExpr(n)] :
          t \in TypeTokens, n \in 0..MaxLen}

ParamLists == UNION {[1..n -> ParamTrees] : n \in 0..MaxParams}

StaticHead == <<"static", "me", ".", "Test", "::", "m">>

ObjectHead == <<"obj", ".", "m">>

Heads == {StaticHead, ObjectHead}

ReturnTypes == {<<"void">>, <<"int">>, <<"me", ".", "Obj">>}

OptionOf(t) == <<"Option", "<">> \o t \o <<">">>

ResultOf(t, e) == <<"Result", "<">> \o t \o <<",">> \o e \o <<">">>

ErrorTypes == {<<"String">>, <<"Error">>}

OkTypes ==
  ReturnTypes \cup {OptionOf(t) : t \in ReturnTypes}
  \cup {ResultOf(<<"int">>, <<"String">>)}

ReturnSpecs ==
  ReturnTypes \cup {OptionOf(t) : t \in ReturnTypes}
  \cup {ResultOf(t, e) : t \in OkTypes, e \in ErrorTypes}

VoidTail == <<"->", "void">>

Tails == {<<"->">> \o r : r \in ReturnSpecs}

\* every parameter list with the static target and the void return, and
\* every target and return specification with a shorter parameter list
Inputs ==
  {in \in [head : Heads, params : ParamLists, tail : Tails] :
     \/ Len(in.params) < MaxParams
     \/ in.head = StaticHead /\ in.tail = VoidTail}

\* most tokens of a token stream given to the type model
MaxTextLen == 7

(***************************************************************************)
(* The state machine: the expansion of one call expression, then the run   *)
(* of the emitted program.                                                 *)
(***************************************************************************)
NoProgram == [sig |-> <<>>, ops |-> <<>>]

\* the type model at rest: no token stream given
NotParsed == [by |-> "none", res |-> [ok |-> FALSE, pos |-> 0]]

NotRendered ==
  [jni |-> <<>>, display |-> <<>>, sig_char |-> "", sig_type |-> <<>>]

TypesIdle ==
  /\ text = <<>>
  /\ parsed = NotParsed
  /\ rendered = NotRendered

\* static PACKAGE_NAME: RwLock<Option<String>> = RwLock::new(None)
None == [some |-> FALSE, value |-> <<>>]

Unlocked == [readers |-> {}, writers |-> {}]

\* the registry at rest: as constructed, and no expansion under way
RegistryIdle ==
  /\ PACKAGE_NAME = None
  /\ lock = Unlocked
  /\ threads = <<>>
  /\ writes = <<>>

\* no value: nothing sent, nothing on the wire, nothing read
NoNumber == [neg |-> FALSE, mag |-> <<>>]

\* no primitive value is under way
ConversionIdle ==
  /\ prim = "none"
  /\ sent = NoNumber
  /\ wire = NoNumber
  /\ got = NoNumber

Init ==
  /\ input \in Inputs
  /\ pc = "source"
  /\ prog = NoProgram
  /\ ip = 0
  /\ log = <<>>
  /\ raw = NoJValue
  /\ pending = FALSE
  /\ cur = NoValue
  /\ result = NoValue
  /\ TypesIdle
  /\ RegistryIdle
  /\ ConversionIdle

\* lib.rs call: parse the input, then emit the program or a diagnostic
Expand ==
  /\ pc = "source"
  /\ LET call == MethodCall_parse(input)
     IN  IF call.ok
         THEN /\ prog' = emit(call.val)
              /\ pc' = "running"
              /\ ip' = 1
         ELSE /\ pc' = "rejected"
              /\ UNCHANGED <<prog, ip>>
  /\ UNCHANGED <<input, log, raw, pending, cur, result>>
  /\ UNCHANGED <<types_vars, registry_vars, conversion_vars>>

Running(ops) ==
  /\ pc = "running"
  /\ ip <= Len(prog.ops)
  /\ prog.ops[ip].op \in ops

\* Unwrap that goes on after a failure
Unwrap_continue(ok) ==
  /\ log' = Append(log, [ins |-> prog.ops[ip], ok |-> ok])
  /\ ip' = ip + 1
  /\ pc' = pc

\* a fallible bridge call followed by .unwrap(): continue, or panic
Unwrap(ok) ==
  /\ log' = Append(log, [ins |-> prog.ops[ip], ok |-> ok])
  /\ IF ok THEN ip' = ip + 1 /\ pc' = pc
     ELSE pc' = "aborted" /\ ip' = ip

\* env.new_<ident>_array(len).inspect_err(..).unwrap()
ExecNewArray ==
  /\ Running({"new_array"})
  /\ \E ok \in BOOLEAN : Unwrap(ok)
  /\ UNCHANGED <<input, prog, raw, pending, cur, result>>
  /\ UNCHANGED <<types_vars, registry_vars, conversion_vars>>

\* env.set_<ident>_array_region(&array, 0, &[..]).inspect_err(..).unwrap()
ExecSetArrayRegion ==
  /\ Running({"set_array_region"})
  /\ \E ok \in BOOLEAN : Unwrap(ok)
  /\ UNCHANGED <<input, prog, raw, pending, cur, result>>
  /\ UNCHANGED <<types_vars, registry_vars, conversion_vars>>

\* env.new_object_array(len, class, null).inspect_err(..).unwrap()
ExecNewObjectArray ==
  /\ Running({"new_object_array"})
  /\ \E ok \in BOOLEAN : Unwrap(ok)
  /\ UNCHANGED <<input, prog, raw, pending, cur, result>>
  /\ UNCHANGED <<types_vars, registry_vars, conversion_vars>>

\* env.set_object_array_element(&array, i, element).inspect_err(..).unwrap()
ExecSetObjectArrayElement ==
  /\ Running({"set_object_array_element"})
  /\ \E ok \in BOOLEAN : Unwrap(ok)
  /\ UNCHANGED <<input, prog, raw, pending, cur, result>>
  /\ UNCHANGED <<types_vars, registry_vars, conversion_vars>>

\* env.call_static_method(..) / env.call_method(..), then
\* .inspect_err(|err| panic!(..)).unwrap(): the bridge fails, or returns a
\* JValue and may leave an exception pending
ExecInvoke ==
  /\ Running({"call_static_method", "call_method"})
  /\ \/ /\ Unwrap(FALSE)
        /\ UNCHANGED <<raw, pending>>
     \/ /\ Unwrap(TRUE)
        /\ raw' \in JValues
        /\ pending' \in BOOLEAN
  /\ UNCHANGED <<input, prog, cur, result>>
  /\ UNCHANGED <<types_vars, registry_vars, conversion_vars>>

\* .#sig_char().inspect_err(|err| panic!(..)).unwrap()
ExecConvert ==
  /\ Running({"convert"})
  /\ LET c == convert(raw, prog.ops[ip].sig_char)
     IN  /\ Unwrap(c.ok)
         /\ cur' = IF c.ok THEN c.val ELSE cur
  /\ UNCHANGED <<input, prog, raw, pending, result>>
  /\ UNCHANGED <<types_vars, registry_vars, conversion_vars>>

\* if __call_result.is_null() { panic!(..) }
ExecNullCheck ==
  /\ Running({"null_check"})
  /\ Unwrap(~is_null(cur))
  /\ UNCHANGED <<input, prog, raw, pending, cur, result>>
  /\ UNCHANGED <<types_vars, registry_vars, conversion_vars>>

\* if __call_result.is_null() { None } else { Some(__call_result) }
ExecOptionWrap ==
  /\ Running({"option_wrap"})
  /\ Unwrap(TRUE)
  /\ cur' = option_wrap(cur)
  /\ UNCHANGED <<input, prog, raw, pending, result>>
  /\ UNCHANGED <<types_vars, registry_vars, conversion_vars>>

\* crate::utils::catch_exception(env).map(|_| __call_result)
ExecCatchException ==
  /\ Running({"catch_exception"})
  /\ Unwrap(TRUE)
  /\ cur' = catch_map(pending, cur)
  /\ UNCHANGED <<input, prog, raw, pending, result>>
  /\ UNCHANGED <<types_vars, registry_vars, conversion_vars>>

\* the value of the emitted block is handed to the caller
Return ==
  /\ pc = "running"
  /\ ip > Len(prog.ops)
  /\ pc' = "done"
  /\ result' = cur
  /\ UNCHANGED <<input, prog, ip, log, raw, pending, cur>>
  /\ UNCHANGED <<types_vars, registry_vars, conversion_vars>>

Next ==
  \/ Expand
  \/ ExecNewArray
  \/ ExecSetArrayRegion
  \/ ExecNewObjectArray
  \/ ExecSetObjectArrayElement
  \/ ExecInvoke
  \/ ExecConvert
  \/ ExecNullCheck
  \/ ExecOptionWrap
  \/ ExecCatchException
  \/ Return

Spec == Init /\ [][Next]_vars

(***************************************************************************)
(* What the properties below read off a state.                             *)
(***************************************************************************)
\* the return specification of the call expression, as written
Ret == SubSeq(input.tail, 2, Len(input.tail))

ObjTokens == <<"me", ".", "Obj">>

StringErr == <<"String">>

\* the macro emitted a program
Expanded == pc \in {"running", "done", "aborted"}

InvokeOps == {"call_static_method", "call_method"}

\* the instruction ran and succeeded / ran at all / failed as the last step
Succeeded(ops) ==
  \E i \in DOMAIN log : log[i].ins.op \in ops /\ log[i].ok

Executed(ops) == \E i \in DOMAIN log : log[i].ins.op \in ops

FailedLast(ops) ==
  /\ log # <<>>
  /\ log[Len(log)].ins.op \in ops
  /\ ~log[Len(log)].ok

Converted == Succeeded({"convert"})

Emits(ops) == \E i \in DOMAIN prog.ops : prog.ops[i].op \in ops

\* values handed to the caller
Plain(jv) == [wrap |-> <<>>, k |-> jv.k, v |-> jv.v]

Unit == [wrap |-> <<>>, k |-> "v", v |-> 0]

ErrValue == [wrap |-> <<"Err">>, k |-> "String", v |-> 0]

OkOf(x) == [wrap |-> <<"Ok">> \o x.wrap, k |-> x.k, v |-> x.v]

SomeOf(jv) == [wrap |-> <<"Some">>, k |-> jv.k, v |-> jv.v]

NoneValue == [wrap |-> <<"None">>, k |-> "l", v |-> 0]

\* the program runs its instructions in the order it was emitted in
RunsInOrder == \A i \in DOMAIN log : log[i].ins = prog.ops[i]

\* a failed step of one of these kinds is the last step of the run
FailureAborts(ops) ==
  \A i \in DOMAIN log :
    (log[i].ins.op \in ops /\ ~log[i].ok) =>
      /\ i = Len(log)
      /\ pc = "aborted"
      /\ result = NoValue

(***************************************************************************)
(* C1.  The emitted signature is "(", each parameter's contribution in     *)
(* source order, ")", and the return fragment; a parameter contributes     *)
(* its type's signature string, after "[" when it is an array form; the    *)
(* return fragment is the signature string of the innermost payload, so    *)
(* that multiArg(boolean(true), [int]([1,2])) -> void gives (Z[I)V.        *)
(* The signature string of a type is the one of the type table: boolean    *)
(* and bool are Z, int is I, void is V, a class path is L<path>;.          *)
(***************************************************************************)
DotsToSlashes(t) == [i \in 1..Len(t) |-> IF t[i] = "." THEN "/" ELSE t[i]]

TableSigType(t) ==
  CASE t = <<"void">>    -> <<"V">>
    [] t = <<"boolean">> -> <<"Z">>
    [] t = <<"bool">>    -> <<"Z">>
    [] t = <<"int">>     -> <<"I">>
    [] OTHER             -> <<"L">> \o DotsToSlashes(t) \o <<";">>

RECURSIVE TableParamsSig(_)
TableParamsSig(ps) ==
  IF ps = <<>> THEN <<>>
  ELSE (IF Head(ps).bracket THEN <<"[">> ELSE <<>>)
       \o TableSigType(Head(ps).ty) \o TableParamsSig(Tail(ps))

RECURSIVE Payload(_)
\* Result<R, E> -> payload of R, Option<C> -> C, T -> T
Payload(r) ==
  IF r[1] = "Result" THEN Payload(SubSeq(r, 3, Len(r) - 3))
  ELSE IF r[1] = "Option" THEN SubSeq(r, 3, Len(r) - 1)
  ELSE r

C1_SignatureByTable ==
  Expanded =>
    prog.sig = <<"(">> \o TableParamsSig(input.params) \o <<")">>
               \o TableSigType(Payload(Ret))

(***************************************************************************)
(* C2.  Return specification Result<class, String>: when an exception is   *)
(* pending after the invocation the program yields the error value and     *)
(* does not abort; when the method returned a non-null reference and       *)
(* nothing is pending it yields ok(reference).  (Stated for the runs in    *)
(* which the bridge returned an object, so that the conversion succeeded.) *)
(***************************************************************************)
C2_ResultClassThrows ==
  (Ret = ResultOf(ObjTokens, StringErr) /\ Converted) =>
    /\ pending => /\ pc # "aborted"
                  /\ pc = "done" => result = ErrValue
    /\ (~pending /\ raw.v # 0) =>
                  /\ pc # "aborted"
                  /\ pc = "done" => result = OkOf(Plain(raw))

(***************************************************************************)
(* C3.  Return specification Result<primitive, String>: the program has no *)
(* null check; once the raw result is converted the run does not abort,    *)
(* and it yields the error value when an exception is pending, whatever    *)
(* the converted value, and ok(converted value) otherwise.                 *)
(***************************************************************************)
PrimitiveTokens == {<<"int">>, <<"void">>}

C3_ResultPrimitive ==
  (Expanded /\ Ret \in {ResultOf(t, StringErr) : t \in PrimitiveTokens}) =>
    /\ ~Emits({"null_check"})
    /\ Converted => pc # "aborted"
    /\ pc = "done" =>
         result = IF pending THEN ErrValue ELSE OkOf(Plain(raw))

\* a run that converted the int 0, found an exception pending and yielded
\* the error value
C3_Witness ==
  /\ Ret = ResultOf(<<"int">>, StringErr)
  /\ pc = "done"
  /\ pending
  /\ raw = [k |-> "i", v |-> 0]
  /\ result = ErrValue

(***************************************************************************)
(* C4.  Return specification Option<class>: the program yields None when   *)
(* the converted reference is null and Some(reference) when it is not; a   *)
(* null reference never aborts the run.                                    *)
(***************************************************************************)
C4_OptionClass ==
  (Expanded /\ Ret = OptionOf(ObjTokens)) =>
    /\ Converted => pc # "aborted"
    /\ pc = "done" =>
         result = IF raw.v = 0 THEN NoneValue ELSE SomeOf(raw)

\* a run whose bridge call returned null and that yielded None
C4_Witness ==
  /\ Ret = OptionOf(ObjTokens)
  /\ pc = "done"
  /\ raw = [k |-> "l", v |-> 0]
  /\ result = NoneValue

C6_Assertive ==
  /\ (Expanded /\ Ret = ObjTokens) =>
       /\ (Converted /\ raw.v = 0) =>
            /\ pc # "done"
            /\ Executed({"null_check"}) => FailedLast({"null_check"})
            /\ Executed({"null_check"}) => pc = "aborted"
       /\ (Converted /\ raw.v # 0) =>
            /\ pc # "aborted"
            /\ pc = "done" => result = Plain(raw)
  /\ (Expanded /\ Ret \in PrimitiveTokens) =>
       /\ ~Emits({"null_check"})
       /\ Converted => pc # "aborted"
       /\ pc = "done" => result = Plain(raw)

\* a run declared to return an Object whose bridge call returned null and
\* that aborted at the null check
C6_Witness ==
  /\ Ret = ObjTokens
  /\ pc = "aborted"
  /\ raw = [k |-> "l", v |-> 0]
  /\ FailedLast({"null_check"})

(***************************************************************************)
(* C7.  When the bridge call or the conversion of its result fails, the    *)
(* run aborts at that step: it is the last step of the run, nothing is     *)
(* handed to the caller, whatever the return kind.                         *)
(***************************************************************************)
C7_FailureIsFatal ==
  /\ FailureAborts(InvokeOps \cup {"convert"})
  /\ RunsInOrder

\* a run with a Result return whose conversion failed although an
\* exception was pending
C7_Witness ==
  /\ Ret[1] = "Result"
  /\ pending
  /\ pc = "aborted"
  /\ FailedLast({"convert"})

(***************************************************************************)
(* C8.  An array literal of Objects with N elements (N >= 0) emits one     *)
(* object-array allocation of size N typed by the element's class path,    *)
(* then N stores, element i at index i in source order, all of them        *)
(* before the bridge call, and passes the array built by reference; the    *)
(* steps run in that order and a failed allocation or store is the last    *)
(* step of the run.                                                        *)
(***************************************************************************)
IsLiteral(p) == p.bracket /\ p.value.bracket

\* the instructions of the block of parameter k, in program order
OpsOfParam(k) ==
  SelectSeq(prog.ops, LAMBDA o : "param" \in DOMAIN o /\ o.param = k)

InvokeIndex == CHOOSE i \in DOMAIN prog.ops : prog.ops[i].op \in InvokeOps

\* the block of parameter k is one run of instructions before the call
BlockBeforeInvoke(k) ==
  \E s \in DOMAIN prog.ops :
    /\ SubSeq(prog.ops, s, s + Len(OpsOfParam(k)) - 1) = OpsOfParam(k)
    /\ s + Len(OpsOfParam(k)) - 1 < InvokeIndex

PassesArray(k) ==
  prog.ops[InvokeIndex].args[k] =
    [jvalue |-> "Object",
     val |-> [how |-> "block", expr |-> input.params[k].value]]

C8_ObjectLiteral ==
  Expanded =>
    /\ \A k \in DOMAIN input.params :
         (IsLiteral(input.params[k]) /\ input.params[k].ty = ObjTokens) =>
           LET elems == input.params[k].value.elems
               ops   == OpsOfParam(k)
           IN  /\ Len(ops) = Len(elems) + 1
               /\ ops[1] = [op |-> "new_object_array", len |-> Len(elems),
                            class |-> <<"me", "/", "Obj">>, param |-> k]
               /\ \A i \in 1..Len(elems) :
                    ops[i + 1] = [op |-> "set_object_array_element",
                                  index |-> i - 1, value |-> elems[i],
                                  param |-> k]
               /\ BlockBeforeInvoke(k)
               /\ PassesArray(k)
    /\ FailureAborts({"new_object_array", "set_object_array_element"})
    /\ RunsInOrder

\* a run that allocated the array of a literal, stored its first element
\* and aborted at the store of its second
C8_Witness ==
  /\ pc = "aborted"
  /\ FailedLast({"set_object_array_element"})
  /\ log[Len(log)].ins.index = 1
  /\ log[Len(log)].ins.value = "e2"
  /\ input.params[log[Len(log)].ins.param].ty = ObjTokens

(***************************************************************************)
(* C9.  An array literal of primitives with N elements emits one           *)
(* primitive-array allocation of length N, then one bulk fill from offset  *)
(* 0 with the N elements in source order, bool elements cast to u8, both   *)
(* before the bridge call, and passes the array built by reference; the    *)
(* steps run in that order and a failed allocation or fill is the last     *)
(* step of the run.                                                        *)
(***************************************************************************)
BoolTokens == <<"bool">>

HasVoidParam ==
  \E k \in DOMAIN input.params : input.params[k].ty = <<"void">>

C10_VoidOnlyInReturn ==
  pc # "source" =>
    /\ HasVoidParam => pc = "rejected"
    /\ (~HasVoidParam /\ Ret = <<"void">>) =>
         /\ pc # "rejected"
         /\ SubSeq(prog.sig, Len(prog.sig) - 1, Len(prog.sig)) = <<")", "V">>
         /\ pc = "done" => result = Unit

\* a call with a parameter and the void return that ran and yielded unit
C10_Witness ==
  /\ Ret = <<"void">>
  /\ input.params # <<>>
  /\ pc = "done"
  /\ result = Unit

(***************************************************************************)
(* C11.  As claimed: a call expression whose outer return type is void,    *)
(* or one of whose parameters has type void, is rejected when it is        *)
(* parsed.                                                                 *)
(***************************************************************************)
C11_VoidRejected ==
  (pc # "source" /\ (Ret = <<"void">> \/ HasVoidParam)) => pc = "rejected"

(***************************************************************************)
(* C11, as the code has it: a call expression with a parameter of type     *)
(* void is rejected when it is parsed and nothing is emitted for it; a     *)
(* call expression whose outer return type is void and whose parameters    *)
(* are not void is accepted.                                               *)
(***************************************************************************)
C11_VoidParamRejected ==
  pc # "source" =>
    /\ HasVoidParam => (pc = "rejected" /\ prog = NoProgram)
    /\ (Ret = <<"void">> /\ ~HasVoidParam) => (pc # "rejected" /\ Expanded)

\* a call rejected for its bracketed parameter of type void, with a return
\* type that is not void
C11_Witness ==
  /\ pc = "rejected"
  /\ Ret = <<"int">>
  /\ \E k \in DOMAIN input.params :
       input.params[k].bracket /\ input.params[k].ty = <<"void">>

(***************************************************************************)
(* The return grammar on both vocabularies of types: call expressions      *)
(* with a fixed, well-formed target and parameter list and every return    *)
(* specification over the Java keywords, the host-numeric keywords and     *)
(* class paths, nested Results included.                                   *)
(***************************************************************************)
\* Java-side keywords and host-numeric keywords, as the tests write them
JavaKeywordTypes == {<<"void">>, <<"int">>, <<"byte">>, <<"boolean">>}

RustKeywordTypes == {<<"bool">>, <<"u8">>, <<"i32">>}

\* class paths with at least one package
DottedClassTypes ==
  {<<"me", ".", "Obj">>, <<"java", ".", "lang", ".", "String">>}

\* a class name without a package
BareClassTypes == {<<"Obj">>}

RichTypes ==
  JavaKeywordTypes \cup RustKeywordTypes \cup DottedClassTypes
  \cup BareClassTypes

RichOkTypes ==
  RichTypes \cup {OptionOf(t) : t \in RichTypes}
  \cup {ResultOf(t, e) : t \in RichTypes, e \in ErrorTypes}
  \cup {ResultOf(OptionOf(t), e) : t \in DottedClassTypes, e \in ErrorTypes}

RichReturnSpecs ==
  RichTypes \cup {OptionOf(t) : t \in RichTypes}
  \cup {ResultOf(t, e) : t \in RichOkTypes, e \in ErrorTypes}

\* well-formed parameter lists: none, an array literal of ints, an array
\* literal of objects
FixedParamLists ==
  { <<>>,
    << [bracket |-> TRUE, ty |-> <<"int">>, value |-> LiteralExpr(1)] >>,
    << [bracket |-> TRUE, ty |-> ObjTokens, value |-> LiteralExpr(1)] >> }

ReturnInputs ==
  [head : Heads, params : FixedParamLists,
   tail : {<<"->">> \o r : r \in RichReturnSpecs}]

ReturnInit ==
  /\ input \in ReturnInputs
  /\ pc = "source"
  /\ prog = NoProgram
  /\ ip = 0
  /\ log = <<>>
  /\ raw = NoJValue
  /\ pending = FALSE
  /\ cur = NoValue
  /\ result = NoValue
  /\ TypesIdle
  /\ RegistryIdle
  /\ ConversionIdle

ReturnSpec == ReturnInit /\ [][Next]_vars

(***************************************************************************)
(* C12.  Option<T> as a return specification, at top level or as the ok    *)
(* type of a Result with the error type String, is rejected when T is a    *)
(* primitive keyword, Java-side or host-numeric, and accepted when T is a  *)
(* class path.                                                             *)
(***************************************************************************)
PrimitiveKeywordTypes == JavaKeywordTypes \cup RustKeywordTypes

C12_OptionOnlyOfClass ==
  pc # "source" =>
    \A T \in RichTypes :
      (Ret = OptionOf(T) \/ Ret = ResultOf(OptionOf(T), StringErr)) =>
        /\ T \in PrimitiveKeywordTypes => pc = "rejected"
        /\ T \in DottedClassTypes => pc # "rejected"

(***************************************************************************)
(* C13.  A Result whose ok type is itself a Result is rejected when it is  *)
(* parsed, whatever the inner ok type and the error types; a Result whose  *)
(* ok type is a plain type or an Option of a class path, and whose error   *)
(* type is String, is accepted.                                            *)
(***************************************************************************)
NestedResult(r) == Len(r) >= 3 /\ r[1] = "Result" /\ r[3] = "Result"

PlainOkTypes ==
  PrimitiveKeywordTypes \cup DottedClassTypes
  \cup {OptionOf(c) : c \in DottedClassTypes}

C13_NoNestedResult ==
  pc # "source" =>
    /\ NestedResult(Ret) => (pc = "rejected" /\ prog = NoProgram)
    /\ \A t \in PlainOkTypes :
         Ret = ResultOf(t, StringErr) => (pc # "rejected" /\ Expanded)

\* Result<Result<int, String>, String> was given and rejected
C13_Witness ==
  /\ pc = "rejected"
  /\ Ret = ResultOf(ResultOf(<<"int">>, StringErr), StringErr)

(***************************************************************************)
(* types.rs: ClassPath, with nested classes                                *)
(***************************************************************************)
RECURSIVE parse_separated(_, _, _, _)
\* Punctuated::<Ident, P>::parse_separated_nonempty for the separator sep:
\* an identifier, then while sep follows, sep and another identifier
parse_separated(toks, pos, sep, acc) ==
  IF ~PeekIdent(toks, pos) THEN Fail(pos)
  ELSE IF At(toks, pos + 1) = sep
       THEN parse_separated(toks, pos + 2, sep, Append(acc, toks[pos]))
       ELSE Ok(pos + 1, Append(acc, toks[pos]))

\* nested_path: None
NoNestedPath == [some |-> FALSE, classes |-> <<>>, final_class |-> ""]

\* the dot-separated section: the last component is the class, and the
\* rest, which must not be empty, the packages
packages_and_class(path) ==
  IF ~path.ok THEN path
  ELSE IF Len(path.val) < 2 THEN Fail(path.pos)
  ELSE Ok(path.pos,
          [packages    |-> SubSeq(path.val, 1, Len(path.val) - 1),
           class       |-> path.val[Len(path.val)],
           nested_path |-> NoNestedPath])

\* Some(NestedPath { final_class, classes }) put into the path r
with_nested_path(r, nested) ==
  IF ~nested.ok THEN nested
  ELSE Ok(nested.pos,
          [packages    |-> r.val.packages,
           class       |-> r.val.class,
           nested_path |->
             [some        |-> TRUE,
              classes     |-> SubSeq(nested.val, 1, Len(nested.val) - 1),
              final_class |-> nested.val[Len(nested.val)]]])

\* if input.parse::<Token![$]>().is_ok(): the "$"-separated section
nested_path_after(toks, r) ==
  IF ~r.ok THEN r
  ELSE IF At(toks, r.pos) = "$"
       THEN with_nested_path(r, parse_separated(toks, r.pos + 1, "$", <<>>))
       ELSE r

\* impl Parse for ClassPath (types.rs)
types_ClassPath_parse(toks, pos) ==
  nested_path_after(toks,
    packages_and_class(parse_separated(toks, pos, ".", <<>>)))

\* the path with its last package as the class
without_last_package(path) ==
  [packages    |-> SubSeq(path.packages, 1, Len(path.packages) - 1),
   class       |-> path.packages[Len(path.packages)],
   nested_path |-> path.nested_path]

\* the method name after a path with nested classes: a dot and an
\* identifier
dot_and_method(toks, r) ==
  IF At(toks, r.pos) # "." THEN Fail(r.pos)
  ELSE IF ~PeekIdent(toks, r.pos + 1) THEN Fail(r.pos + 1)
  ELSE Ok(r.pos + 2, [path |-> r.val, method_name |-> toks[r.pos + 1]])

\* let method_name = match &path.nested_path, without the check of the
\* number of packages
method_name_of_unchecked(toks, r) ==
  IF ~r.ok THEN r
  ELSE IF r.val.nested_path.some THEN dot_and_method(toks, r)
  ELSE Ok(r.pos, [path        |-> without_last_package(r.val),
                  method_name |-> r.val.class])

\* let method_name = match &path.nested_path: after nested classes the
\* method is parsed; without them it is the class already parsed, and the
\* last package becomes the class
method_name_of(toks, r) ==
  IF ~r.ok THEN r
  ELSE IF r.val.nested_path.some THEN dot_and_method(toks, r)
  ELSE IF Len(r.val.packages) < 2 THEN Fail(r.pos)
  ELSE Ok(r.pos, [path        |-> without_last_package(r.val),
                  method_name |-> r.val.class])

\* ClassPath::parse_with_trailing_method
parse_with_trailing_method(toks, pos) ==
  method_name_of(toks, types_ClassPath_parse(toks, pos))

\* the "$"-led tail of to_string_helper
nested_classes(nested_path, nested_sep) ==
  IF nested_path.some
  THEN <<nested_sep>>
       \o intersperse(Append(nested_path.classes, nested_path.final_class),
                      nested_sep)
  ELSE <<>>

\* ClassPath::to_string_helper
to_string_helper(class, sep, nested_sep) ==
  intersperse(Append(class.packages, class.class), sep)
  \o nested_classes(class.nested_path, nested_sep)

\* to_jni_class_path with the nested classes joined like the packages
to_jni_class_path_all_slashes(class) == to_string_helper(class, "/", "/")

\* ClassPath::to_jni_class_path
to_jni_class_path(class) == to_string_helper(class, "/", "$")

\* Display for ClassPath that keeps the separators of the source
types_ClassPath_fmt_as_written(class) == to_string_helper(class, ".", "$")

\* impl Display for ClassPath (types.rs)
types_ClassPath_fmt(class) == to_string_helper(class, ".", ".")

\* SigType for ClassPath
types_ClassPath_sig_char(class) == "l"

types_ClassPath_sig_type(class) ==
  <<"L">> \o to_jni_class_path(class) \o <<";">>

(***************************************************************************)
(* types.rs: RustPrimitive, JavaPrimitive and Type                         *)
(***************************************************************************)
\* impl FromStr for RustPrimitive
RustPrimitive_from_str ==
  [bool |-> "Bool", char |-> "Char", u8 |-> "U8", i8 |-> "I8",
   u16 |-> "U16", i16 |-> "I16", u32 |-> "U32", i32 |-> "I32",
   u64 |-> "U64", i64 |-> "I64", f32 |-> "F32", f64 |-> "F64"]

\* impl FromStr for JavaPrimitive
JavaPrimitive_from_str ==
  [byte |-> "Byte", boolean |-> "Boolean", char |-> "Char",
   short |-> "Short", int |-> "Int", long |-> "Long", float |-> "Float",
   double |-> "Double"]

\* JavaPrimitive_from with the unsigned kinds taken one size up
JavaPrimitive_from_widened(value) ==
  CASE value = "Bool" -> "Boolean"
    [] value = "Char" -> "Char"
    [] value = "U8"   -> "Short"
    [] value = "I8"   -> "Byte"
    [] value = "U16"  -> "Int"
    [] value = "I16"  -> "Short"
    [] value = "U32"  -> "Long"
    [] value = "I32"  -> "Int"
    [] value = "U64"  -> "Long"
    [] value = "I64"  -> "Long"
    [] value = "F32"  -> "Float"
    [] value = "F64"  -> "Double"

\* impl From<RustPrimitive> for JavaPrimitive
JavaPrimitive_from(value) ==
  CASE value = "Bool" -> "Boolean"
    [] value = "Char" -> "Char"
    [] value = "U8"   -> "Byte"
    [] value = "I8"   -> "Byte"
    [] value = "U16"  -> "Short"
    [] value = "I16"  -> "Short"
    [] value = "U32"  -> "Int"
    [] value = "I32"  -> "Int"
    [] value = "U64"  -> "Long"
    [] value = "I64"  -> "Long"
    [] value = "F32"  -> "Float"
    [] value = "F64"  -> "Double"

\* SigType for JavaPrimitive: sig_char
JavaPrimitive_sig_char(ty) ==
  CASE ty = "Byte"    -> "b"
    [] ty = "Boolean" -> "z"
    [] ty = "Char"    -> "c"
    [] ty = "Short"   -> "s"
    [] ty = "Int"     -> "i"
    [] ty = "Long"    -> "j"
    [] ty = "Float"   -> "f"
    [] ty = "Double"  -> "d"

\* SigType for JavaPrimitive: sig_type, the sig_char in upper case
JavaPrimitive_sig_type(ty) == <<to_uppercase(JavaPrimitive_sig_char(ty))>>

\* impl Display for JavaPrimitive
JavaPrimitive_fmt(ty) ==
  CASE ty = "Byte"    -> "byte"
    [] ty = "Boolean" -> "boolean"
    [] ty = "Char"    -> "char"
    [] ty = "Short"   -> "short"
    [] ty = "Int"     -> "int"
    [] ty = "Long"    -> "long"
    [] ty = "Float"   -> "float"
    [] ty = "Double"  -> "double"

\* Self::Object(input.parse()?)
types_Object(class) ==
  IF class.ok THEN Ok(class.pos, [tag |-> "Object", class |-> class.val])
  ELSE class

\* Type::parse with the Java primitives tried first
types_Type_parse_java_first(toks, pos) ==
  IF ~PeekIdent(toks, pos) THEN Fail(pos)
  ELSE IF toks[pos] \in DOMAIN JavaPrimitive_from_str
  THEN Ok(pos + 1, [tag |-> "JavaPrimitive", ident |-> toks[pos],
                    ty |-> JavaPrimitive_from_str[toks[pos]]])
  ELSE IF toks[pos] \in DOMAIN RustPrimitive_from_str
  THEN Ok(pos + 1, [tag |-> "RustPrimitive", ident |-> toks[pos],
                    ty |-> RustPrimitive_from_str[toks[pos]]])
  ELSE types_Object(types_ClassPath_parse(toks, pos))

\* impl Parse for Type (types.rs): a Rust primitive, else a Java primitive,
\* else a class path parsed from the untouched stream
types_Type_parse(toks, pos) ==
  IF ~PeekIdent(toks, pos) THEN Fail(pos)
  ELSE IF toks[pos] \in DOMAIN RustPrimitive_from_str
  THEN Ok(pos + 1, [tag |-> "RustPrimitive", ident |-> toks[pos],
                    ty |-> RustPrimitive_from_str[toks[pos]]])
  ELSE IF toks[pos] \in DOMAIN JavaPrimitive_from_str
  THEN Ok(pos + 1, [tag |-> "JavaPrimitive", ident |-> toks[pos],
                    ty |-> JavaPrimitive_from_str[toks[pos]]])
  ELSE types_Object(types_ClassPath_parse(toks, pos))

\* SigType for Type: sig_char
types_Type_sig_char(ty) ==
  CASE ty.tag = "JavaPrimitive" -> JavaPrimitive_sig_char(ty.ty)
    [] ty.tag = "RustPrimitive" ->
         JavaPrimitive_sig_char(JavaPrimitive_from(ty.ty))
    [] ty.tag = "Object" -> types_ClassPath_sig_char(ty.class)

\* SigType for Type: sig_type
types_Type_sig_type(ty) ==
  CASE ty.tag = "JavaPrimitive" -> JavaPrimitive_sig_type(ty.ty)
    [] ty.tag = "RustPrimitive" ->
         JavaPrimitive_sig_type(JavaPrimitive_from(ty.ty))
    [] ty.tag = "Object" -> types_ClassPath_sig_type(ty.class)

\* impl Display for Type (types.rs)
types_Type_fmt(ty) ==
  CASE ty.tag = "JavaPrimitive" -> <<JavaPrimitive_fmt(ty.ty)>>
    [] ty.tag = "RustPrimitive" ->
         <<JavaPrimitive_fmt(JavaPrimitive_from(ty.ty))>>
    [] ty.tag = "Object" ->
         <<"Object(">> \o to_jni_class_path(ty.class) \o <<")">>

(***************************************************************************)
(* The type model applied to a token stream: one of the parsers reads the  *)
(* whole stream (syn::parse_str), then what it parsed is rendered.         *)
(***************************************************************************)
\* the call! expansion at rest
NoInput == [head |-> <<>>, params |-> <<>>, tail |-> <<>>]

CallIdle ==
  /\ input = NoInput
  /\ pc = "idle"
  /\ prog = NoProgram
  /\ ip = 0
  /\ log = <<>>
  /\ raw = NoJValue
  /\ pending = FALSE
  /\ cur = NoValue
  /\ result = NoValue

\* two identifiers and the two separators of a class path
PathAlphabet == {"a", "B", ".", "$"}

PathTexts == UNION {[1..n -> PathAlphabet] : n \in 0..MaxTextLen}

\* the keywords of both vocabularies, and void
KeywordTexts ==
  {<<k>> : k \in DOMAIN RustPrimitive_from_str \cup
                 DOMAIN JavaPrimitive_from_str \cup {"void"}}

Texts == PathTexts \cup KeywordTexts

TypesInit ==
  /\ text \in Texts
  /\ parsed = NotParsed
  /\ rendered = NotRendered
  /\ CallIdle
  /\ RegistryIdle
  /\ ConversionIdle

\* syn::parse_str: the parse fails when tokens are left over
parse_str(res, toks) ==
  IF res.ok /\ res.pos # Len(toks) + 1 THEN Fail(res.pos) ELSE res

\* syn::parse_str::<ClassPath>(text), types.rs
ParseClassPath ==
  /\ parsed = NotParsed
  /\ parsed' = [by  |-> "ClassPath",
                res |-> parse_str(types_ClassPath_parse(text, 1), text)]
  /\ UNCHANGED <<text, rendered, call_vars, registry_vars, conversion_vars>>

\* syn::parse_str::<Type>(text), types.rs
ParseType ==
  /\ parsed = NotParsed
  /\ parsed' = [by  |-> "Type",
                res |-> parse_str(types_Type_parse(text, 1), text)]
  /\ UNCHANGED <<text, rendered, call_vars, registry_vars, conversion_vars>>

\* the ClassPath of the call grammar (call.rs) on the same stream
ParseCallClassPath ==
  /\ parsed = NotParsed
  /\ parsed' = [by  |-> "call::ClassPath",
                res |-> parse_str(ClassPath_parse(text, 1), text)]
  /\ UNCHANGED <<text, rendered, call_vars, registry_vars, conversion_vars>>

\* the Type of the call grammar (call.rs) on the same stream
ParseCallType ==
  /\ parsed = NotParsed
  /\ parsed' = [by  |-> "call::Type",
                res |-> parse_str(Type_parse(text, 1), text)]
  /\ UNCHANGED <<text, rendered, call_vars, registry_vars, conversion_vars>>

\* Parser::parse2(ClassPath::parse_with_trailing_method, text), types.rs
ParseWithTrailingMethod ==
  /\ parsed = NotParsed
  /\ parsed' = [by  |-> "parse_with_trailing_method",
                res |-> parse_str(parse_with_trailing_method(text, 1), text)]
  /\ UNCHANGED <<text, rendered, call_vars, registry_vars, conversion_vars>>

ToRender(by) == parsed.by = by /\ parsed.res.ok /\ rendered = NotRendered

\* to_jni_class_path, Display and SigType of a types.rs ClassPath
RenderClassPath ==
  /\ ToRender("ClassPath")
  /\ rendered' = [jni      |-> to_jni_class_path(parsed.res.val),
                  display  |-> types_ClassPath_fmt(parsed.res.val),
                  sig_char |-> types_ClassPath_sig_char(parsed.res.val),
                  sig_type |-> types_ClassPath_sig_type(parsed.res.val)]
  /\ UNCHANGED <<text, parsed, call_vars, registry_vars, conversion_vars>>

\* Display and SigType of a types.rs Type
RenderType ==
  /\ ToRender("Type")
  /\ rendered' = [jni      |-> <<>>,
                  display  |-> types_Type_fmt(parsed.res.val),
                  sig_char |-> types_Type_sig_char(parsed.res.val),
                  sig_type |-> types_Type_sig_type(parsed.res.val)]
  /\ UNCHANGED <<text, parsed, call_vars, registry_vars, conversion_vars>>

\* Display and sig_type of a call.rs ClassPath
RenderCallClassPath ==
  /\ ToRender("call::ClassPath")
  /\ rendered' = [jni      |-> ClassPath_fmt(parsed.res.val),
                  display  |-> ClassPath_fmt(parsed.res.val),
                  sig_char |-> "l",
                  sig_type |-> ClassPath_sig_type(parsed.res.val)]
  /\ UNCHANGED <<text, parsed, call_vars, registry_vars, conversion_vars>>

\* Display, sig_char and sig_type of a call.rs Type
RenderCallType ==
  /\ ToRender("call::Type")
  /\ rendered' = [jni      |-> <<>>,
                  display  |-> <<Type_fmt(parsed.res.val)>>,
                  sig_char |-> sig_char(parsed.res.val),
                  sig_type |-> sig_type(parsed.res.val)]
  /\ UNCHANGED <<text, parsed, call_vars, registry_vars, conversion_vars>>

TypesNext ==
  \/ ParseClassPath
  \/ ParseType
  \/ ParseCallClassPath
  \/ ParseCallType
  \/ ParseWithTrailingMethod
  \/ RenderClassPath
  \/ RenderType
  \/ RenderCallClassPath
  \/ RenderCallType

TypesSpec == TypesInit /\ [][TypesNext]_vars

(***************************************************************************)
(* C14.  A class path is accepted exactly when it is two or more segments  *)
(* separated by ".", optionally followed by "$" and one or more segments   *)
(* separated by "$": the types.rs parser accepts a token stream if and     *)
(* only if it has that form, and every class path the call grammar's       *)
(* parser accepts has that form too, so at least one package before the    *)
(* class.                                                                  *)
(***************************************************************************)
Even(i) == i % 2 = 0

\* segments at the odd places, separators at the even ones, of which the
\* first is "." and none after a "$" is "."
WellFormedPath(t) ==
  /\ Len(t) >= 3
  /\ ~Even(Len(t))
  /\ \A i \in 1..Len(t) :
       IF Even(i) THEN t[i] \in {".", "$"} ELSE IsIdent(t[i])
  /\ t[2] = "."
  /\ \A i, j \in 1..Len(t) :
       (Even(i) /\ Even(j) /\ i < j /\ t[i] = "$") => t[j] = "$"

C14_ClassPathGrammar ==
  /\ parsed.by = "ClassPath" => (parsed.res.ok <=> WellFormedPath(text))
  /\ parsed.by = "call::ClassPath" => (parsed.res.ok => WellFormedPath(text))

(***************************************************************************)
(* C15.  The JNI rendering of a parsed well-formed class path is the       *)
(* source with every "." replaced by "/" and every "$" kept, segments in   *)
(* source order.                                                           *)
(***************************************************************************)
Rendered(by) == parsed.by = by /\ rendered # NotRendered

Replaced(t, old, new) ==
  [i \in 1..Len(t) |-> IF t[i] = old THEN new ELSE t[i]]

C15_JniRendering ==
  (Rendered("ClassPath") /\ WellFormedPath(text)) =>
    rendered.jni = Replaced(text, ".", "/")

\* a path of a package, a class and two nested classes, rendered
C15_Witness ==
  /\ Rendered("ClassPath")
  /\ text = <<"a", ".", "B", "$", "a", "$", "B">>
  /\ rendered.jni = <<"a", "/", "B", "$", "a", "$", "B">>

(***************************************************************************)
(* C16.  As claimed: the display rendering of a parsed well-formed class   *)
(* path, nested classes included, is the source itself.                    *)
(***************************************************************************)
C16_DisplayRoundTrip ==
  (Rendered("ClassPath") /\ WellFormedPath(text)) => rendered.display = text

(***************************************************************************)
(* C16, as the code has it: the display rendering of a parsed well-formed  *)
(* class path is the source with every "$" replaced by "."; it is the      *)
(* source itself exactly when the path has no nested class.                *)
(***************************************************************************)
HasNested(t) == \E i \in 1..Len(t) : t[i] = "$"

C16_DisplayAllDots ==
  (Rendered("ClassPath") /\ WellFormedPath(text)) =>
    /\ rendered.display = Replaced(text, "$", ".")
    /\ rendered.display = text <=> ~HasNested(text)

\* a path with two nested classes, displayed with dots only
C16_Witness ==
  /\ Rendered("ClassPath")
  /\ text = <<"a", ".", "B", "$", "a", "$", "B">>
  /\ rendered.display = <<"a", ".", "B", ".", "a", ".", "B">>

(***************************************************************************)
(* C17.  The signature table: each Java primitive kind has its fixed       *)
(* lowercase signature character (void v, byte b, boolean z, char c,       *)
(* short s, int i, long j, float f, double d) and that letter in upper     *)
(* case as signature string; each host-numeric kind is one Java kind       *)
(* (bool boolean, char char, u8 i8 byte, u16 i16 short, u32 i32 int,       *)
(* u64 i64 long, f32 float, f64 double) with that kind's character and     *)
(* string; an Object has the character l and the string "L", its JNI       *)
(* path, ";".                                                              *)
(***************************************************************************)
SignatureLetter ==
  [void |-> "v", byte |-> "b", boolean |-> "z", char |-> "c", short |-> "s",
   int |-> "i", long |-> "j", float |-> "f", double |-> "d"]

UpperLetter ==
  [v |-> "V", b |-> "B", z |-> "Z", c |-> "C", s |-> "S", i |-> "I",
   j |-> "J", f |-> "F", d |-> "D"]

HostToJava ==
  [bool |-> "boolean", char |-> "char", u8 |-> "byte", i8 |-> "byte",
   u16 |-> "short", i16 |-> "short", u32 |-> "int", i32 |-> "int",
   u64 |-> "long", i64 |-> "long", f32 |-> "float", f64 |-> "double"]

\* the rendering has the character and the string of the Java kind
HasSignatureOf(kind) ==
  /\ rendered.sig_char = SignatureLetter[kind]
  /\ rendered.sig_type = <<UpperLetter[SignatureLetter[kind]]>>

C17_SignatureTable ==
  /\ (Rendered("Type") /\ Len(text) = 1
        /\ text[1] \in DOMAIN SignatureLetter \ {"void"}) =>
       HasSignatureOf(text[1])
  /\ (Rendered("Type") /\ Len(text) = 1 /\ text[1] \in DOMAIN HostToJava) =>
       /\ HasSignatureOf(HostToJava[text[1]])
       /\ rendered.display = <<HostToJava[text[1]]>>
  /\ (Rendered("call::Type") /\ text = <<"void">>) => HasSignatureOf("void")
  /\ (Rendered("Type") /\ WellFormedPath(text)) =>
       /\ rendered.sig_char = "l"
       /\ rendered.sig_type = <<"L">> \o Replaced(text, ".", "/") \o <<";">>

\* the host-numeric keyword u8 parsed and rendered as a byte
C17_Witness ==
  /\ Rendered("Type")
  /\ text = <<"u8">>
  /\ rendered.sig_char = "b"
  /\ rendered.sig_type = <<"B">>

(***************************************************************************)
(* The package registry of lib.rs and the two expansions that use it.      *)
(*                                                                         *)
(* PACKAGE_NAME is one slot behind a std::sync::RwLock.  package! takes    *)
(* the write guard and stores its literal; jni_fn checks the function it   *)
(* is attached to, takes the read guard, builds the class path from the    *)
(* stored package, and renames the function.  The host toolchain may run   *)
(* several expansions at once: each is a thread of the model, and a step   *)
(* of the model is a step of one thread.                                   *)
(***************************************************************************)

\* Option<String>::Some
Some(s) == [some |-> TRUE, value |-> s]

\* the text as one string
RECURSIVE Flat(_)
Flat(s) == IF s = <<>> THEN "" ELSE s[1] \o Flat(Tail(s))

\* str::replace: every chunk of s that is one of pats becomes the text to
RECURSIVE str_replace(_, _, _)
str_replace(s, pats, to) ==
  IF s = <<>> THEN <<>>
  ELSE (IF s[1] \in pats THEN to ELSE <<s[1]>>)
         \o str_replace(Tail(s), pats, to)

\* a build in which package! asks for a read guard
package_guard_read == "read"

\* the guard package! asks of the lock
package_guard == "write"

\* the guard jni_fn asks of the lock
jni_fn_guard == "read"

\* RwLock: a read guard is granted while no writer holds the lock, a write
\* guard while nobody holds it
RwLock_granted(l, mode) ==
  IF mode = "write" THEN l.readers = {} /\ l.writers = {}
  ELSE l.writers = {}

\* the lock once thread t holds a guard of the mode
RwLock_acquire(l, t, mode) ==
  IF mode = "write" THEN [l EXCEPT !.writers = @ \cup {t}]
  ELSE [l EXCEPT !.readers = @ \cup {t}]

\* the lock once the guard of thread t is dropped
RwLock_drop(l, t) ==
  [readers |-> l.readers \ {t}, writers |-> l.writers \ {t}]

\* the diagnostics of jni_fn
MustBePub == "Function must have 'pub' visibility"

NoLocalLifetime == "Function can't have a lifetime named \"local\""

NoGenericTypes == "Function can't have generic types"

BadArgument(pat) == "Function can't have an argument named \"" \o pat \o "\""

PackageNotCalled == "Macro jni_macros::package! has not been called."

\* the lifetime parameters of the function named local
local_lifetime(item) ==
  SelectSeq(item.generics,
            LAMBDA g : g.kind = "lifetime" /\ g.ident = "local")

\* one diagnostic for each type or const parameter of the function
generic_types(item) ==
  [i \in 1..Len(SelectSeq(item.generics,
                          LAMBDA g : g.kind \in {"type", "const"})) |->
     NoGenericTypes]

\* the arguments of the function that are named env or _class
named_env_or_class(item) ==
  SelectSeq(item.inputs, LAMBDA arg : arg.pat \in {"env", "_class"})

\* one diagnostic for each argument named env or _class
bad_arguments(item) ==
  [i \in 1..Len(named_env_or_class(item)) |->
     BadArgument(named_env_or_class(item)[i].pat)]

\* the checks of jni_fn, in order: the diagnostics of the first check that
\* fails, or none
jni_fn_checks(item) ==
  IF item.vis # "pub" THEN <<MustBePub>>
  ELSE IF local_lifetime(item) # <<>> THEN <<NoLocalLifetime>>
  ELSE IF generic_types(item) # <<>> THEN generic_types(item)
  ELSE bad_arguments(item)

\* extra_package_data.unwrap_or("")
unwrap_or_empty(attr_args) == IF attr_args.some THEN attr_args.value ELSE <<>>

\* a build that takes an unset registry as the empty package
class_path_of_unset_as_empty(registry, attr_args) ==
  [ok |-> TRUE,
   value |-> str_replace((IF registry.some THEN registry.value ELSE <<>>)
                           \o <<".">> \o unwrap_or_empty(attr_args),
                         {".", "/"}, <<"_">>)]

\* the class path of the renamed function, from the registry as read: the
\* package, a dot and the attribute, with every dot and slash an underscore
class_path_of(registry, attr_args) ==
  IF registry.some
    THEN [ok |-> TRUE,
          value |-> str_replace(registry.value \o <<".">>
                                  \o unwrap_or_empty(attr_args),
                                {".", "/"}, <<"_">>)]
    ELSE [ok |-> FALSE, value |-> <<>>]

\* a build that keeps the underscores of the function's name as they are
jni_name_unescaped(ident) == ident

\* the function's name with every underscore escaped
jni_name(ident) == str_replace(ident, {"_"}, <<"_1">>)

\* the identifier of the renamed function
jni_ident(class_path, ident) ==
  "Java_" \o Flat(class_path) \o "_" \o Flat(jni_name(ident))

\* the two arguments jni_fn adds
env_arg == [pat |-> "mut env", ty |-> "::jni::JNIEnv<'local>"]

class_arg == [pat |-> "_class", ty |-> "::jni::objects::JClass<'local>"]

\* Punctuated::insert
insert(s, index, e) == SubSeq(s, 1, index) \o <<e>> \o SubSeq(s, index + 1, Len(s))

\* what an expansion gives back to the compiler
NoOutput ==
  [kind |-> "none", errors |-> <<>>, ident |-> "", attrs |-> <<>>,
   abi |-> "", generics |-> <<>>, inputs |-> <<>>]

\* TokenStream::new()
EmptyOutput == [NoOutput EXCEPT !.kind = "empty"]

\* compile_error! for each diagnostic
error(errs) == [NoOutput EXCEPT !.kind = "error", !.errors = errs]

\* the function as jni_fn gives it back: renamed, no_mangle, system ABI,
\* the lifetime local added, env and _class put first
renamed(item, class_path) ==
  [kind |-> "fn", errors |-> <<>>,
   ident |-> jni_ident(class_path, item.ident),
   attrs |-> <<"no_mangle">>,
   abi |-> "system",
   generics |-> Append(item.generics, [kind |-> "lifetime", ident |-> "local"]),
   inputs |-> insert(insert(item.inputs, 0, env_arg), 1, class_arg)]

(***************************************************************************)
(* The expansions as threads.                                              *)
(***************************************************************************)

\* the expansions that run at once, at most
MaxThreads == 3

\* the literals given to package!
PackageNames ==
  { <<"me", ".", "author", ".", "packagename">>, <<"b", "/", "c">> }

\* no function: the item of a thread that expands package!
NoItem == [vis |-> "", generics |-> <<>>, ident |-> <<>>, inputs |-> <<>>]

hello_world ==
  [vis |-> "pub", generics |-> <<>>,
   ident |-> <<"hello", "_", "world">>,
   inputs |-> << [pat |-> "s", ty |-> "JString"] >>]

\* the functions jni_fn is attached to, with the attribute's argument:
\* three that pass the checks, and one that fails each check
Items ==
  { [item |-> hello_world, attr_args |-> Some(<<"MyClass">>)],
    [item |-> [vis |-> "pub",
               generics |-> << [kind |-> "lifetime", ident |-> "a"] >>,
               ident |-> <<"_", "get", "_">>,
               inputs |-> << [pat |-> "a", ty |-> "i32"],
                             [pat |-> "b", ty |-> "JObject<'a>"] >>],
     attr_args |-> Some(<<"sub", ".", "Outer", "/", "Inner">>)],
    [item |-> [vis |-> "pub", generics |-> <<>>, ident |-> <<"init">>,
               inputs |-> <<>>],
     attr_args |-> None],
    [item |-> [hello_world EXCEPT !.vis = "inherited"],
     attr_args |-> Some(<<"MyClass">>)],
    [item |-> [hello_world EXCEPT
                 !.generics = << [kind |-> "lifetime", ident |-> "local"] >>],
     attr_args |-> Some(<<"MyClass">>)],
    [item |-> [hello_world EXCEPT
                 !.generics = << [kind |-> "type", ident |-> "T"],
                                 [kind |-> "lifetime", ident |-> "a"],
                                 [kind |-> "const", ident |-> "N"] >>],
     attr_args |-> Some(<<"MyClass">>)],
    [item |-> [hello_world EXCEPT
                 !.inputs = << [pat |-> "env", ty |-> "JNIEnv"],
                               [pat |-> "s", ty |-> "JString"],
                               [pat |-> "_class", ty |-> "JClass"] >>],
     attr_args |-> None] }

\* an expansion that has not started
Started ==
  { [kind |-> "package", package_name |-> p, item |-> NoItem,
     attr_args |-> None, pc |-> "start", class_path |-> <<>>,
     output |-> NoOutput] : p \in PackageNames }
  \cup
  { [kind |-> "jni_fn", package_name |-> <<>>, item |-> i.item,
     attr_args |-> i.attr_args, pc |-> "start", class_path |-> <<>>,
     output |-> NoOutput] : i \in Items }

\* the registry as constructed, and some expansions about to run
RegistryInit ==
  /\ PACKAGE_NAME = None
  /\ lock = Unlocked
  /\ writes = <<>>
  /\ \E n \in 1..MaxThreads : threads \in [1..n -> Started]
  /\ CallIdle
  /\ TypesIdle
  /\ ConversionIdle

\* thread t moves to the position, the rest of it as it was
Goto(t, position) == threads' = [threads EXCEPT ![t].pc = position]

\* package!: PACKAGE_NAME.write() returns the guard
package_write(t) ==
  /\ threads[t].kind = "package"
  /\ threads[t].pc = "start"
  /\ RwLock_granted(lock, package_guard)
  /\ lock' = RwLock_acquire(lock, t, package_guard)
  /\ Goto(t, "writing")
  /\ UNCHANGED <<PACKAGE_NAME, writes, call_vars, types_vars,
               conversion_vars>>

\* package! that keeps the package already set
package_store_once(t) ==
  /\ threads[t].kind = "package"
  /\ threads[t].pc = "writing"
  /\ PACKAGE_NAME' = IF PACKAGE_NAME.some THEN PACKAGE_NAME
                     ELSE Some(threads[t].package_name)
  /\ writes' = Append(writes, threads[t].package_name)
  /\ Goto(t, "written")
  /\ UNCHANGED <<lock, call_vars, types_vars,
               conversion_vars>>

\* package!: the literal is stored through the guard
package_store(t) ==
  /\ threads[t].kind = "package"
  /\ threads[t].pc = "writing"
  /\ PACKAGE_NAME' = Some(threads[t].package_name)
  /\ writes' = Append(writes, threads[t].package_name)
  /\ Goto(t, "written")
  /\ UNCHANGED <<lock, call_vars, types_vars,
               conversion_vars>>

\* package!: the guard is dropped and the empty token stream returned
package_return(t) ==
  /\ threads[t].kind = "package"
  /\ threads[t].pc = "written"
  /\ lock' = RwLock_drop(lock, t)
  /\ threads' = [threads EXCEPT ![t].pc = "done", ![t].output = EmptyOutput]
  /\ UNCHANGED <<PACKAGE_NAME, writes, call_vars, types_vars,
               conversion_vars>>

\* jni_fn: the checks of the function; a failed check returns its
\* diagnostics before the registry is touched
jni_fn_check(t) ==
  /\ threads[t].kind = "jni_fn"
  /\ threads[t].pc = "start"
  /\ threads' =
       IF jni_fn_checks(threads[t].item) # <<>>
         THEN [threads EXCEPT
                 ![t].pc = "done",
                 ![t].output = error(jni_fn_checks(threads[t].item))]
         ELSE [threads EXCEPT ![t].pc = "checked"]
  /\ UNCHANGED <<PACKAGE_NAME, lock, writes, call_vars, types_vars,
               conversion_vars>>

\* jni_fn: PACKAGE_NAME.read() returns the guard
jni_fn_read(t) ==
  /\ threads[t].kind = "jni_fn"
  /\ threads[t].pc = "checked"
  /\ RwLock_granted(lock, jni_fn_guard)
  /\ lock' = RwLock_acquire(lock, t, jni_fn_guard)
  /\ Goto(t, "reading")
  /\ UNCHANGED <<PACKAGE_NAME, writes, call_vars, types_vars,
               conversion_vars>>

\* jni_fn: the match on the registry, under the guard: the class path, or
\* the diagnostic that package! has not been called
jni_fn_class_path(t) ==
  /\ threads[t].kind = "jni_fn"
  /\ threads[t].pc = "reading"
  /\ threads' =
       IF class_path_of(PACKAGE_NAME, threads[t].attr_args).ok
         THEN [threads EXCEPT
                 ![t].pc = "read",
                 ![t].class_path =
                    class_path_of(PACKAGE_NAME, threads[t].attr_args).value]
         ELSE [threads EXCEPT
                 ![t].pc = "read",
                 ![t].output = error(<<PackageNotCalled>>)]
  /\ UNCHANGED <<PACKAGE_NAME, lock, writes, call_vars, types_vars,
               conversion_vars>>

\* jni_fn: the guard is dropped at the end of the statement, or by the
\* return of the diagnostic
jni_fn_drop(t) ==
  /\ threads[t].kind = "jni_fn"
  /\ threads[t].pc = "read"
  /\ lock' = RwLock_drop(lock, t)
  /\ Goto(t, IF threads[t].output.kind = "error" THEN "done" ELSE "rename")
  /\ UNCHANGED <<PACKAGE_NAME, writes, call_vars, types_vars,
               conversion_vars>>

\* jni_fn: the function is renamed and given back
jni_fn_rename(t) ==
  /\ threads[t].kind = "jni_fn"
  /\ threads[t].pc = "rename"
  /\ threads' = [threads EXCEPT
                   ![t].pc = "done",
                   ![t].output = renamed(threads[t].item,
                                         threads[t].class_path)]
  /\ UNCHANGED <<PACKAGE_NAME, lock, writes, call_vars, types_vars,
               conversion_vars>>

RegistryNext ==
  \/ \E t \in DOMAIN threads : package_write(t)
  \/ \E t \in DOMAIN threads : package_store(t)
  \/ \E t \in DOMAIN threads : package_return(t)
  \/ \E t \in DOMAIN threads : jni_fn_check(t)
  \/ \E t \in DOMAIN threads : jni_fn_read(t)
  \/ \E t \in DOMAIN threads : jni_fn_class_path(t)
  \/ \E t \in DOMAIN threads : jni_fn_drop(t)
  \/ \E t \in DOMAIN threads : jni_fn_rename(t)

RegistrySpec == RegistryInit /\ [][RegistryNext]_vars

(***************************************************************************)
(* C18: the registry is guarded as a reader/writer lock: in every          *)
(* interleaving of package! and jni_fn expansions, a write of the registry *)
(* overlaps no read of it and no other write, while two reads may overlap  *)
(* each other.                                                             *)
(***************************************************************************)

\* thread t is inside its write of the registry
Writing(t) ==
  threads[t].kind = "package" /\ threads[t].pc \in {"writing", "written"}

\* thread t is inside its read of the registry
Reading(t) ==
  threads[t].kind = "jni_fn" /\ threads[t].pc \in {"reading", "read"}

C18_WriteExcludesAll ==
  \A t \in DOMAIN threads :
    Writing(t) =>
      \A u \in DOMAIN threads \ {t} : ~Writing(u) /\ ~Reading(u)

\* two reads overlap: one thread has read the stored package and still
\* holds its guard, another is inside its read too, and a write has been
\* done before
C18_Witness ==
  \E t, u \in DOMAIN threads :
    /\ t # u
    /\ Reading(t) /\ threads[t].pc = "read" /\ threads[t].class_path # <<>>
    /\ Reading(u)
    /\ writes # <<>>

(***************************************************************************)
(* C19: a jni_fn expansion of a function that passes the checks, whose     *)
(* read of the registry happens before any write of package! has           *)
(* completed, gives the diagnostic that package! has not been called and   *)
(* no renamed function; one whose read happens after package!(p) has       *)
(* completed, with no later write, gives a function whose name is built    *)
(* from p.  Nothing orders the write and the read.                         *)
(***************************************************************************)

\* s with every dot and every slash an underscore
Underscored(s) == Replaced(Replaced(s, ".", "_"), "/", "_")

\* the class path built from the package p and the attribute's argument
BuiltFrom(p, attr_args) ==
  Underscored(p) \o <<"_">>
    \o (IF attr_args.some THEN Underscored(attr_args.value) ELSE <<>>)

\* the step is the read of the registry by thread t
ReadBy(t) == threads[t].pc = "reading" /\ threads'[t].pc = "read"

\* thread t has expanded jni_fn on a function that passes the checks
Expanded_jni_fn(t) ==
  /\ threads[t].kind = "jni_fn"
  /\ threads[t].pc = "done"
  /\ threads[t].item.vis = "pub"
  /\ \A i \in DOMAIN threads[t].item.generics :
       /\ threads[t].item.generics[i].kind = "lifetime"
       /\ threads[t].item.generics[i].ident # "local"
  /\ \A i \in DOMAIN threads[t].item.inputs :
       threads[t].item.inputs[i].pat \notin {"env", "_class"}

\* what the read found decides what the expansion gives back
GivesWhatItRead(t) ==
  IF threads[t].class_path = <<>>
    THEN /\ threads[t].output.kind = "error"
         /\ threads[t].output.errors = <<PackageNotCalled>>
         /\ threads[t].output.ident = ""
    ELSE /\ threads[t].output.kind = "fn"
         /\ threads[t].output.ident =
              "Java_" \o Flat(threads[t].class_path) \o "_"
                \o Flat(Replaced(threads[t].item.ident, "_", "_1"))

C19_ReadAfterWrite ==
  /\ [](\A t \in DOMAIN threads : Expanded_jni_fn(t) => GivesWhatItRead(t))
  /\ [][\A t \in DOMAIN threads :
          ReadBy(t) =>
            IF writes = <<>>
              THEN /\ threads'[t].output.kind = "error"
                   /\ threads'[t].output.errors = <<PackageNotCalled>>
                   /\ threads'[t].class_path = <<>>
              ELSE /\ threads'[t].output = NoOutput
                   /\ threads'[t].class_path =
                        BuiltFrom(writes[Len(writes)], threads[t].attr_args)
       ]_vars

\* the same function expanded twice while package! ran once: the expansion
\* that read before the write has the diagnostic, the one that read after
\* it has the renamed function
C19_Witness ==
  \E t, u, w \in DOMAIN threads :
    /\ Expanded_jni_fn(t) /\ Expanded_jni_fn(u)
    /\ threads[t].item = threads[u].item
    /\ threads[t].output.errors = <<PackageNotCalled>>
    /\ threads[u].output.kind = "fn"
    /\ threads[w].kind = "package" /\ threads[w].pc = "done"
    /\ Len(writes) = 1

(***************************************************************************)
(* C20: for a function that passes the checks of jni_fn, with the package  *)
(* P configured and the class attribute C, the function given back is      *)
(* named Java_ P' _ C' _ f', where P' and C' are P and C with every dot    *)
(* and slash an underscore and f' is the function's name with every        *)
(* underscore escaped as _1; env and _class are its first two arguments,   *)
(* before the original arguments in their order.                           *)
(***************************************************************************)

JavaName(P, C, f) ==
  "Java_" \o Flat(Underscored(P)) \o "_" \o Flat(Underscored(C)) \o "_"
    \o Flat(Replaced(f, "_", "_1"))

RustPrimitives ==
  {"bool", "char", "u8", "u16", "u32", "u64", "i8", "i16", "i32", "i64",
   "f32", "f64"}

\* RustPrimitive::is_unsigned
is_unsigned(p) == p \in {"u8", "u16", "u32", "u64"}

\* the bytes of a value of the primitive
size_of ==
  [bool |-> 1, char |-> 2, u8 |-> 1, i8 |-> 1, u16 |-> 2, i16 |-> 2,
   u32 |-> 4, i32 |-> 4, u64 |-> 8, i64 |-> 8, f32 |-> 4, f64 |-> 8]

\* every bit of every byte flipped
Complement(b) == [i \in 1..Len(b) |-> 255 - b[i]]

\* one more, wrapping at the width
RECURSIVE Increment(_)
Increment(b) ==
  IF b = <<>> THEN <<>>
  ELSE IF b[1] = 255 THEN <<0>> \o Increment(Tail(b))
  ELSE <<b[1] + 1>> \o Tail(b)

\* the two's complement of the bytes
Negated(b) == Increment(Complement(b))

\* the sign bit of the bytes is set
SignBit(b) == b[Len(b)] >= 128

\* the bytes of an unsigned number in memory
unsigned_bytes(x) == x.mag

\* the unsigned number the bytes are
unsigned_from_bytes(b) == [neg |-> FALSE, mag |-> b]

\* the bytes of a signed number in memory
signed_bytes(v) == IF v.neg THEN Negated(v.mag) ELSE v.mag

\* the signed number the bytes are
signed_from_bytes(b) ==
  IF SignBit(b) THEN [neg |-> TRUE, mag |-> Negated(b)]
  ELSE [neg |-> FALSE, mag |-> b]

\* the unsigned number handed to the bridge as the signed type of its size
transmute_to_signed(x) == signed_from_bytes(unsigned_bytes(x))

\* a build that converts with a range check that saturates
saturate_to_unsigned(v) ==
  IF v.neg THEN [neg |-> FALSE, mag |-> [i \in 1..Len(v.mag) |-> 0]] ELSE v

\* transmute::<_, target_ty>(value): the signed number of the bridge as the
\* unsigned type of its size
transmute_to_unsigned(v) == unsigned_from_bytes(signed_bytes(v))

\* char::REPLACEMENT_CHARACTER, U+FFFD
REPLACEMENT_CHARACTER == [neg |-> FALSE, mag |-> <<253, 255>>]

\* char::decode_utf16 of one code unit, .next().unwrap(): the scalar value,
\* or the error of an unpaired surrogate (D800 to DFFF)
decode_utf16(unit) ==
  [ok |-> unit.mag[2] \notin 216..223, value |-> unit]

\* Result::unwrap_or
unwrap_or(res, default) == IF res.ok THEN res.value ELSE default

\* a build that takes the code unit as the scalar value unchecked
char_from_unit_unchecked(unit) == unit

\* the Java char as a char of the host
char_from_unit(unit) == unwrap_or(decode_utf16(unit), REPLACEMENT_CHARACTER)

\* RustPrimitive::special_case_conversion, applied: the converted value, or
\* none when the primitive needs no conversion
special_case_conversion(p, value) ==
  IF is_unsigned(p) THEN [some |-> TRUE, value |-> transmute_to_unsigned(value)]
  ELSE IF p = "char" THEN [some |-> TRUE, value |-> char_from_unit(value)]
  ELSE [some |-> FALSE, value |-> value]

\* the value as it is handed to the bridge
to_bridge(p, value) == IF is_unsigned(p) THEN transmute_to_signed(value) ELSE value

\* the value as the caller has it once read back from the bridge
from_bridge(p, value) == special_case_conversion(p, value).value

\* the bytes the values of the model are made of: all of them for the types
\* of one and two bytes, the edges for the wider ones
ByteChoices(size) ==
  IF size <= 2 THEN 0..255
  ELSE IF size = 4 THEN {0, 1, 127, 128, 255}
  ELSE {0, 128, 255}

BytesOf(p) == [1..size_of[p] -> ByteChoices(size_of[p])]

\* the values of the primitive on the host
HostValues(p) ==
  IF is_unsigned(p) THEN {unsigned_from_bytes(b) : b \in BytesOf(p)}
  ELSE IF p \in {"i8", "i32", "i64"} THEN {signed_from_bytes(b) : b \in BytesOf(p)}
  ELSE IF p = "i16"
    THEN {signed_from_bytes(b) : b \in [1..2 -> {0, 1, 127, 128, 255}]}
  ELSE IF p = "bool" THEN {unsigned_from_bytes(<<0>>), unsigned_from_bytes(<<1>>)}
  ELSE IF p \in {"f32", "f64"}
    THEN {unsigned_from_bytes(b) : b \in [1..size_of[p] -> {0, 255}]}
  ELSE {}

\* the values a Java method returns for the primitive: signed numbers for
\* byte, short, int and long, every code unit for char
WireValues(p) ==
  IF is_unsigned(p) THEN {signed_from_bytes(b) : b \in BytesOf(p)}
  ELSE IF p = "char" THEN {unsigned_from_bytes(b) : b \in BytesOf(p)}
  ELSE HostValues(p)

\* a value of the host about to be passed, or a value Java has returned
ConversionInit ==
  /\ prim \in RustPrimitives
  /\ \/ sent \in HostValues(prim) /\ wire = NoNumber
     \/ sent = NoNumber /\ wire \in WireValues(prim)
  /\ got = NoNumber
  /\ CallIdle
  /\ TypesIdle
  /\ RegistryIdle

\* the value is handed to the bridge, and Java hands the same value back
ToBridge ==
  /\ sent # NoNumber
  /\ wire = NoNumber
  /\ wire' = to_bridge(prim, sent)
  /\ UNCHANGED <<prim, sent, got, call_vars, types_vars, registry_vars>>

\* the value of the bridge is read back as the primitive of the host
FromBridge ==
  /\ wire # NoNumber
  /\ got = NoNumber
  /\ got' = from_bridge(prim, wire)
  /\ UNCHANGED <<prim, sent, wire, call_vars, types_vars, registry_vars>>

ConversionNext == ToBridge \/ FromBridge

ConversionSpec == ConversionInit /\ [][ConversionNext]_vars

(***************************************************************************)
(* C21: for every unsigned host-numeric kind and every value x of it,      *)
(* x reinterpreted as the signed type of its size before the bridge and    *)
(* reinterpreted back on read is x again; each direction keeps the value   *)
(* modulo two to the width, with no range check and no saturation.  The    *)
(* signed kinds, bool and the floating kinds are not converted.            *)
(***************************************************************************)

\* the sum of two numbers given by their bytes, with the carry in, as bytes
\* of the same width (the carry out is dropped)
RECURSIVE SumBytes(_, _, _)
SumBytes(a, b, carry) ==
  IF a = <<>> THEN <<>>
  ELSE <<(a[1] + b[1] + carry) % 256>>
         \o SumBytes(Tail(a), Tail(b), (a[1] + b[1] + carry) \div 256)

AllZero(b) == \A i \in DOMAIN b : b[i] = 0

\* s is a number of the signed type of the width: at least minus two to
\* the width less one, and less than two to the width less one
InSignedRange(s) ==
  IF s.neg
    THEN /\ ~AllZero(s.mag)
         /\ \/ ~SignBit(s.mag)
            \/ /\ s.mag[Len(s.mag)] = 128
               /\ AllZero(SubSeq(s.mag, 1, Len(s.mag) - 1))
    ELSE ~SignBit(s.mag)

\* the unsigned u and the signed s are the same modulo two to the width:
\* equal, or s is negative and u is s plus two to the width
SameModulo(u, s) ==
  /\ ~u.neg
  /\ Len(u.mag) = Len(s.mag)
  /\ IF s.neg THEN AllZero(SumBytes(u.mag, s.mag, 0)) /\ ~AllZero(u.mag)
     ELSE u.mag = s.mag

UnitNumber(c) == c.mag[1] + 256 * c.mag[2]

C22_CharFromJava ==
  (prim = "char" /\ wire # NoNumber /\ got # NoNumber) =>
    /\ ~got.neg
    /\ Len(got.mag) = 2
    /\ UnitNumber(got) \notin 55296..57343
    /\ UnitNumber(got) =
         IF UnitNumber(wire) \in 55296..57343 THEN 65533 ELSE UnitNumber(wire)

\* the lone low surrogate DC00 read as U+FFFD
C22_Witness ==
  /\ prim = "char"
  /\ wire = [neg |-> FALSE, mag |-> <<0, 220>>]
  /\ got = REPLACEMENT_CHARACTER

(***************************************************************************)
(* C23: for the return specification Result<class, String> the emitted     *)
(* sequence is the invocation, the conversion, the null check and the      *)
(* exception check, in that order: the null check always runs before the   *)
(* exception check, so a null converted reference aborts the run and the   *)
(* exception check is never reached.                                       *)
(***************************************************************************)

\* the kinds of the last n instructions of the emitted program
LastOps(n) ==
  [i \in 1..n |-> prog.ops[Len(prog.ops) - n + i].op]

\* the places of the log where an instruction of these kinds ran
Ran(ops) == {i \in DOMAIN log : log[i].ins.op \in ops}

C24_ExceptionCheckIffResult ==
  Expanded =>
    IF Ret[1] = "Result"
      THEN /\ Cardinality({i \in DOMAIN prog.ops :
                             prog.ops[i].op = "catch_exception"}) = 1
           /\ Cardinality(Ran({"catch_exception"})) <= 1
           /\ \A i \in Ran({"catch_exception"}) :
                \E j \in Ran(InvokeOps) : j < i /\ log[j].ok
           /\ pc = "done" => Cardinality(Ran({"catch_exception"})) = 1
      ELSE /\ ~Emits({"catch_exception"})
           /\ ~Executed({"catch_exception"})

\* an Option run that ended with an exception pending and never checked
\* for it
C24_Witness ==
  /\ Ret[1] = "Option"
  /\ pc = "done"
  /\ pending
  /\ ~Executed({"catch_exception"})

(***************************************************************************)
(* C25: the marshalling of a parameter that is not a literal depends only  *)
(* on its shape and on whether its type is a primitive or an Object: a     *)
(* single primitive is passed by value, boolean narrowed to its 8-bit form *)
(* and every other primitive as it is; a single Object is passed as a      *)
(* borrowed reference; a pre-built array is marshalled as a single Object  *)
(* with the same value expression whatever its element type, which shows   *)
(* only in the signature.                                                  *)
(***************************************************************************)

\* the argument the bridge call is given for parameter k
ArgOf(k) == prog.ops[InvokeIndex].args[k]

\* the argument of a single Object with the value expression
BorrowedObject(value) ==
  [jvalue |-> "Object", val |-> [how |-> "ref", expr |-> value]]

\* the keywords of the boolean kind: the Java one and the host's
BooleanKeywords == {<<"boolean">>, <<"bool">>}

C25_MarshallingByShape ==
  Expanded =>
    \A k \in DOMAIN input.params :
      ~IsLiteral(input.params[k]) =>
        /\ OpsOfParam(k) = <<>>
        /\ IF input.params[k].bracket
             THEN ArgOf(k) = BorrowedObject(input.params[k].value)
           ELSE IF input.params[k].ty \in BooleanKeywords
             THEN ArgOf(k).val =
                    [how |-> "as u8", expr |-> input.params[k].value]
           ELSE IF input.params[k].ty = <<"int">>
             THEN ArgOf(k).val =
                    [how |-> "value", expr |-> input.params[k].value]
           ELSE ArgOf(k) = BorrowedObject(input.params[k].value)

(***************************************************************************)
(* C26: parse_with_trailing_method.  Without nested classes the input is   *)
(* accepted only with at least three dot-separated segments; the last is   *)
(* the method name and the others the class path, the last of them the     *)
(* class.  With nested classes a dot and the method name must follow, and  *)
(* the class path is returned as parsed.  Either way the class path has    *)
(* at least one package: MyClass.method and MyClass$Nested.method are      *)
(* rejected.                                                               *)
(***************************************************************************)

\* the input without its last two tokens
BeforeMethod(t) == SubSeq(t, 1, Len(t) - 2)

\* the segments of a path, in order
Segments(t) == [i \in 1..((Len(t) + 1) \div 2) |-> t[2 * i - 1]]

\* the input is a class path, a dot and a method name
PathDotMethod(t) ==
  /\ Len(t) >= 5
  /\ WellFormedPath(BeforeMethod(t))
  /\ t[Len(t) - 1] = "."
  /\ IsIdent(t[Len(t)])

C26_TrailingMethod ==
  parsed.by = "parse_with_trailing_method" =>
    /\ parsed.res.ok <=> PathDotMethod(text)
    /\ parsed.res.ok =>
         /\ parsed.res.val.method_name = text[Len(text)]
         /\ Len(parsed.res.val.path.packages) >= 1
         /\ parsed.res.val.path.nested_path.some <=> HasNested(text)
         /\ Segments(BeforeMethod(text)) =
              parsed.res.val.path.packages
                \o <<parsed.res.val.path.class>>
                \o parsed.res.val.path.nested_path.classes
                \o (IF HasNested(text)
                      THEN <<parsed.res.val.path.nested_path.final_class>>
                      ELSE <<>>)
         /\ HasNested(text) =>
              parsed.res.val.path = types_ClassPath_parse(BeforeMethod(text), 1).val

\* a path with a nested class and its method, and the rejected
\* MyClass.method is covered by the same parse
C26_Witness ==
  /\ parsed.by = "parse_with_trailing_method"
  /\ text = <<"a", ".", "B", "$", "B", ".", "a">>
  /\ parsed.res.ok
  /\ parsed.res.val.method_name = "a"
  /\ parsed.res.val.path.packages = <<"a">>
  /\ parsed.res.val.path.class = "B"
  /\ parsed.res.val.path.nested_path.final_class = "B"

(***************************************************************************)
(* C27: Type parsing tries the host-numeric vocabulary, then the Java      *)
(* one, then falls back to an Object of a class path.  A keyword of both   *)
(* vocabularies is read as the host-numeric one: char parses as the char   *)
(* of the host, and Type parsing never produces the Java char.  A leading  *)
(* identifier of neither vocabulary is parsed as a class path, no token    *)
(* having been consumed before.                                            *)
(***************************************************************************)
HostKeywords ==
  {"bool", "char", "u8", "i8", "u16", "i16", "u32", "i32", "u64", "i64",
   "f32", "f64"}

JavaKeywords ==
  {"boolean", "char", "byte", "short", "int", "long", "float", "double"}

C27_HostVocabularyFirst ==
  (parsed.by = "Type" /\ text # <<>>) =>
    /\ parsed.res.ok =>
         /\ parsed.res.val.tag = "RustPrimitive" <=> text[1] \in HostKeywords
         /\ parsed.res.val.tag = "JavaPrimitive" <=>
              text[1] \in JavaKeywords \ HostKeywords
         /\ parsed.res.val.tag # "Object" =>
              /\ parsed.res.val.ident = text[1]
              /\ parsed.res.pos = 2
         /\ ~(parsed.res.val.tag = "JavaPrimitive" /\ parsed.res.val.ty = "Char")
    /\ text[1] \notin HostKeywords \cup JavaKeywords =>
         /\ parsed.res.ok <=> WellFormedPath(text)
         /\ parsed.res.ok =>
              /\ parsed.res.val.tag = "Object"
              /\ parsed.res.val.class.packages[1] = text[1]
              /\ parsed.res.val.class = types_ClassPath_parse(text, 1).val
    /\ (Len(text) = 1 /\ text[1] \in HostKeywords \cup JavaKeywords) =>
         parsed.res.ok

\* char, a keyword of both vocabularies, parsed as the char of the host
C27_Witness ==
  /\ parsed.by = "Type"
  /\ text = <<"char">>
  /\ parsed.res.ok
  /\ parsed.res.val.tag = "RustPrimitive"
  /\ parsed.res.val.ty = "Char"

(***************************************************************************)
(* The call! expansion with the registry in each of its contents: unset,   *)
(* or set by a package! that has completed.                                *)
(***************************************************************************)
CallWithRegistryInit ==
  /\ input \in ReturnInputs
  /\ pc = "source"
  /\ prog = NoProgram
  /\ ip = 0
  /\ log = <<>>
  /\ raw = NoJValue
  /\ pending = FALSE
  /\ cur = NoValue
  /\ result = NoValue
  /\ \/ PACKAGE_NAME = None /\ writes = <<>>
     \/ \E p \in PackageNames : PACKAGE_NAME = Some(p) /\ writes = <<p>>
  /\ lock = Unlocked
  /\ threads = <<>>
  /\ TypesIdle
  /\ ConversionIdle

CallWithRegistrySpec == CallWithRegistryInit /\ [][Next]_vars

(***************************************************************************)
(* C28: the expansion of a call expression neither reads nor writes the    *)
(* package registry: no step of a call expansion changes the registry,     *)
(* and what the expansion emits is the same whatever the registry holds,   *)
(* unset or any package name: the class, the method and the arguments of   *)
(* the bridge call are those written in the call expression.               *)
(***************************************************************************)

\* the class path written after static, with slashes
WrittenTarget ==
  IF input.head[1] = "static"
    THEN DotsToSlashes(SubSeq(input.head, 2, Len(input.head) - 2))
    ELSE <<input.head[1]>>

C28_CallIgnoresRegistry ==
  /\ [](Expanded =>
          /\ prog.ops[InvokeIndex].target = WrittenTarget
          /\ prog.ops[InvokeIndex].name = input.head[Len(input.head)]
          /\ Len(prog.ops[InvokeIndex].args) = Len(input.params))
  /\ [][registry_vars' = registry_vars]_vars

\* a static call expanded and run to its end with the registry set: the
\* registry is as it was and the class is the one written
C28_Witness ==
  /\ pc = "done"
  /\ PACKAGE_NAME = Some(<<"b", "/", "c">>)
  /\ writes = << <<"b", "/", "c">> >>
  /\ input.head[1] = "static"
  /\ prog.ops[InvokeIndex].target = <<"me", "/", "Test">>

(***************************************************************************)
(* C29: after any sequence of package! and jni_fn expansions: once set,    *)
(* the registry is never unset; package! never fails and is never ignored  *)
(* when the registry is already set, each call overwrites the one slot;    *)
(* and the value a jni_fn expansion reads is the argument of the package!  *)
(* call completed last.                                                    *)
(***************************************************************************)

\* the step is the store of thread t
StoreBy(t) == threads[t].pc = "writing" /\ threads'[t].pc = "written"

C29_LastWriteWins ==
  /\ [](/\ PACKAGE_NAME.some <=> writes # <<>>
        /\ writes # <<>> => PACKAGE_NAME = Some(writes[Len(writes)])
        /\ \A t \in DOMAIN threads :
             (threads[t].kind = "package" /\ threads[t].pc = "done") =>
               /\ threads[t].output.kind = "empty"
               /\ \E i \in DOMAIN writes : writes[i] = threads[t].package_name)
  /\ [][/\ PACKAGE_NAME.some => PACKAGE_NAME'.some
        /\ \A t \in DOMAIN threads :
             /\ StoreBy(t) => PACKAGE_NAME' = Some(threads[t].package_name)
             /\ (ReadBy(t) /\ PACKAGE_NAME.some) =>
                  threads'[t].class_path =
                    BuiltFrom(writes[Len(writes)], threads[t].attr_args)
       ]_vars

\* package! ran twice with two names and jni_fn read after the second:
\* the registry holds the second name and the function is named from it
C29_Witness ==
  \E t, u, w \in DOMAIN threads :
    /\ threads[t].kind = "package" /\ threads[t].pc = "done"
    /\ threads[u].kind = "package" /\ threads[u].pc = "done"
    /\ writes = <<threads[t].package_name, threads[u].package_name>>
    /\ threads[t].package_name # threads[u].package_name
    /\ PACKAGE_NAME = Some(threads[u].package_name)
    /\ Expanded_jni_fn(w)
    /\ threads[w].class_path =
         BuiltFrom(threads[u].package_name, threads[w].attr_args)
    /\ threads[w].output.kind = "fn"

(***************************************************************************)
(* The call target, on inputs whose static target does not parse.          *)
(***************************************************************************)
\* "static a.b (x).m": the class path parses and "::" is missing
StaticThenGroupHead == <<"static", "a", ".", "b", ParenGroup, ".", "m">>

\* "static (x).m": no class path after the keyword
StaticGroupHead == <<"static", ParenGroup, ".", "m">>

\* "static me.Test.m": a dot where "::" belongs
StaticDottedHead == <<"static", "me", ".", "Test", ".", "m">>

\* "(x).m": a receiver in parentheses
GroupHead == <<ParenGroup, ".", "m">>

TargetHeads ==
  Heads \cup {StaticThenGroupHead, StaticGroupHead, StaticDottedHead, GroupHead}

\* the call expressions of Inputs, under each of the targets
TargetInputs == {[in EXCEPT !.head = h] : in \in Inputs, h \in TargetHeads}

TargetInit ==
  /\ input \in TargetInputs
  /\ pc = "source"
  /\ prog = NoProgram
  /\ ip = 0
  /\ log = <<>>
  /\ raw = NoJValue
  /\ pending = FALSE
  /\ cur = NoValue
  /\ result = NoValue
  /\ TypesIdle
  /\ RegistryIdle
  /\ ConversionIdle

TargetSpec == TargetInit /\ [][Next]_vars

\* the input begins with the keyword static
BeginsWithStatic == At(input.head, 1) = "static"

\* C30: an input that begins with "static" is accepted only as a Static
\* target, a class path followed by "::"; when the static target does not
\* parse, the call expression is rejected and is never expanded as an
\* Instance call on what follows the failed attempt.
C30_NoLeakedStaticAttempt ==
  (BeginsWithStatic /\ pc # "source") =>
    IF StaticMethod_parse(input.head, 1).ok
    THEN Expanded => prog.ops[InvokeIndex].op = "call_static_method"
    ELSE pc = "rejected"

====
